---- MODULE Spec2Model ----
(***************************************************************************)
(* Models of the algorithms of the aoc2022 puzzle solutions.  Every puzzle *)
(* is an independent program, so every puzzle has its own state variable   *)
(* (a record of the locals of the function that is modelled) and its own   *)
(* specification; the variables of the other puzzles stay idle.            *)
(***************************************************************************)
EXTENDS Integers, Sequences, FiniteSets, TLC

VARIABLES p25, p21, p21l, p17, p24, p15, p16, p16s, p11, p19, p14, p22, p20

vars == <<p25, p21, p21l, p17, p24, p15, p16, p16s, p11, p19, p14, p22, p20>>

Idle == [pc |-> "idle"]

(***************************************************************************)
(* Helpers shared by the puzzles                                           *)
(***************************************************************************)
Min(a, b) == IF a < b THEN a ELSE b

Max(a, b) == IF a > b THEN a ELSE b

Abs(a) == IF a < 0 THEN -a ELSE a

\* Rust's integer division truncates toward zero; TLA+'s \div floors.
TruncDiv(a, b) ==
    IF (a >= 0) = (b > 0) THEN Abs(a) \div Abs(b) ELSE -(Abs(a) \div Abs(b))

RECURSIVE Pow(_, _)
Pow(b, e) == IF e = 0 THEN 1 ELSE b * Pow(b, e - 1)

(***************************************************************************)
(* p25: balanced base-5 numbers                                            *)
(***************************************************************************)
MaxN == 2000

\* to_normal: sum of digit_i * 5^i, digits in order of increasing significance
RECURSIVE to_normal_from(_, _)
to_normal_from(digits, i) ==
    IF i > Len(digits) THEN 0
    ELSE digits[i] * Pow(5, i - 1) + to_normal_from(digits, i + 1)

to_normal(digits) == to_normal_from(digits, 1)

\* first loop of from_number: plain base 5, least significant digit first
RECURSIVE base5(_)
base5(n) == IF n > 4 THEN <<n % 5>> \o base5(n \div 5) ELSE <<n>>

\* second loop of from_number: walk to the left carrying 1 out of 3, 4 and 5
RECURSIVE carry_walk(_, _, _)
carry_walk(digits, i, accum) ==
    IF i > Len(digits)
    THEN IF accum # 0 THEN <<accum>> ELSE <<>>
    ELSE LET v == digits[i] + accum IN
         IF v = 5 THEN <<0>> \o carry_walk(digits, i + 1, 1)
         ELSE IF v = 4 THEN <<-1>> \o carry_walk(digits, i + 1, 1)
         ELSE IF v = 3 THEN <<-2>> \o carry_walk(digits, i + 1, 1)
         ELSE <<v>> \o carry_walk(digits, i + 1, 0)

\* a from_number that forgets the carry walk
from_number_plain(n) == base5(n)

from_number(n) == carry_walk(base5(n), 1, 0)

InitP25 ==
    /\ p25 \in [pc : {"start"}, n : 0..MaxN, digits : {<<>>}]
    /\ p21 = Idle /\ p21l = Idle /\ p17 = Idle /\ p24 = Idle
    /\ p15 = Idle /\ p16 = Idle /\ p16s = Idle
    /\ p11 = Idle /\ p19 = Idle /\ p14 = Idle /\ p22 = Idle /\ p20 = Idle

P25FromNumber ==
    /\ p25.pc = "start"
    /\ p25' = [p25 EXCEPT !.pc = "done", !.digits = from_number(p25.n)]
    /\ UNCHANGED <<p21, p21l, p17, p24, p15, p16, p16s, p11, p19, p14, p22, p20>>

NextP25 == P25FromNumber

SpecP25 == InitP25 /\ [][NextP25]_vars

\* C1: for every n >= 0 from_number(n) is a list of digits in -2..2 whose
\* value under to_normal is n; from_number(1257) = [2,1,0,0,2] and
\* from_number(1747) = [2,-1,0,-1,-2,1].
C1_FromNumberRoundTrip ==
    p25.pc = "done" =>
        /\ \A i \in 1..Len(p25.digits) : p25.digits[i] \in -2..2
        /\ to_normal(p25.digits) = p25.n
        /\ (p25.n = 1257 => p25.digits = <<2, 1, 0, 0, 2>>)
        /\ (p25.n = 1747 => p25.digits = <<2, -1, 0, -1, -2, 1>>)

C1_Witness ==
    /\ p25.pc = "done"
    /\ p25.n = 1747
    /\ p25.digits = <<2, -1, 0, -1, -2, 1>>

(***************************************************************************)
(* p21: expression trees, Expr::eval and Expr::solve_for                   *)
(***************************************************************************)
P21MaxConst == 2

P21MaxTgt == 3

\* enum Expr
V(x) == [op |-> "V", x |-> x]

C(x) == [op |-> "C", x |-> x]

Bin(op, l, r) == [op |-> op, l |-> l, r |-> r]

BinOps == {"Add", "Sub", "Mul", "Div", "Equal"}

\* Option<i64>, and the outcome "panic" of a division by zero
Some(v) == [k |-> "some", v |-> v]

None == [k |-> "none", v |-> 0]

Panic == [k |-> "panic", v |-> 0]

RECURSIVE is_const(_)
is_const(e) ==
    IF e.op = "C" THEN TRUE
    ELSE IF e.op = "V" THEN FALSE
    ELSE is_const(e.l) /\ is_const(e.r)

\* eval: Some(value), or Panic when a Div node divides by zero
RECURSIVE eval(_, _)
eval(e, var) ==
    IF e.op = "C" THEN Some(e.x)
    ELSE IF e.op = "V" THEN (IF var.k = "some" THEN Some(var.v) ELSE Some(e.x))
    ELSE LET l == eval(e.l, var)
             r == eval(e.r, var)
         IN  IF l.k = "panic" \/ r.k = "panic" THEN Panic
             ELSE IF e.op = "Add" THEN Some(l.v + r.v)
             ELSE IF e.op = "Sub" THEN Some(l.v - r.v)
             ELSE IF e.op = "Mul" THEN Some(l.v * r.v)
             ELSE IF e.op = "Div"
                  THEN (IF r.v = 0 THEN Panic ELSE Some(TruncDiv(l.v, r.v)))
             ELSE Some(IF l.v = r.v THEN 1 ELSE 0)

\* the target handed down by solve_for when the left operand is constant
tgt_right(op, tgt, lv) ==
    IF op = "Add" THEN Some(tgt - lv)
    ELSE IF op = "Sub" THEN Some(lv - tgt)
    ELSE IF op = "Mul" THEN (IF lv = 0 THEN Panic ELSE Some(TruncDiv(tgt, lv)))
    ELSE IF op = "Div" THEN (IF tgt = 0 THEN Panic ELSE Some(TruncDiv(lv, tgt)))
    ELSE Some(lv)

\* the target handed down by solve_for when the right operand is constant
tgt_left(op, tgt, rv) ==
    IF op = "Add" THEN Some(tgt - rv)
    ELSE IF op = "Sub" THEN Some(tgt + rv)
    ELSE IF op = "Mul" THEN (IF rv = 0 THEN Panic ELSE Some(TruncDiv(tgt, rv)))
    ELSE IF op = "Div" THEN Some(tgt * rv)
    ELSE Some(rv)

RECURSIVE solve_for(_, _)
solve_for(e, tgt) ==
    IF e.op = "C" THEN None
    ELSE IF e.op = "V" THEN Some(tgt)
    ELSE IF e.op = "Equal" /\ tgt # 1 THEN None
    ELSE LET lc == is_const(e.l)
             rc == is_const(e.r)
         IN  IF lc = rc THEN None
             ELSE IF lc
             THEN LET lv == eval(e.l, None)
                      t  == IF lv.k = "panic" THEN Panic
                            ELSE tgt_right(e.op, tgt, lv.v)
                  IN  IF t.k = "panic" THEN Panic ELSE solve_for(e.r, t.v)
             ELSE LET rv == eval(e.r, None)
                      t  == IF rv.k = "panic" THEN Panic
                            ELSE tgt_left(e.op, tgt, rv.v)
                  IN  IF t.k = "panic" THEN Panic ELSE solve_for(e.l, t.v)

\* the expressions the function is applied to: leaves, one operation on two
\* leaves, and one operation on a leaf and such an operation
P21Consts == (-P21MaxConst)..P21MaxConst

P21Leaves == {C(x) : x \in P21Consts} \cup {V(0)}

P21Level1 == {Bin(op, l, r) : op \in BinOps, l \in P21Leaves, r \in P21Leaves}

P21Level2 ==
    {Bin(op, l, r) : op \in BinOps, l \in P21Leaves, r \in P21Level1}
        \cup {Bin(op, l, r) : op \in BinOps, l \in P21Level1, r \in P21Leaves}

P21Exprs == P21Leaves \cup P21Level1 \cup P21Level2

P21Tgts == (-P21MaxTgt)..P21MaxTgt

\* the variable values over which the solutions of the equation are counted
P21VarRange == (-(2 * P21MaxTgt * P21MaxConst + 2))..(2 * P21MaxTgt * P21MaxConst + 2)

P21Solutions(e, tgt) == {w \in P21VarRange : eval(e, Some(w)) = Some(tgt)}

InitP21 ==
    /\ p21 \in [pc : {"start"}, expr : P21Exprs, tgt : P21Tgts, res : {None}]
    /\ p25 = Idle /\ p21l = Idle /\ p17 = Idle /\ p24 = Idle
    /\ p15 = Idle /\ p16 = Idle /\ p16s = Idle
    /\ p11 = Idle /\ p19 = Idle /\ p14 = Idle /\ p22 = Idle /\ p20 = Idle

P21SolveFor ==
    /\ p21.pc = "start"
    /\ p21' = [p21 EXCEPT !.pc = "done", !.res = solve_for(p21.expr, p21.tgt)]
    /\ UNCHANGED <<p25, p21l, p17, p24, p15, p16, p16s, p11, p19, p14, p22, p20>>

NextP21 == P21SolveFor

SpecP21 == InitP21 /\ [][NextP21]_vars

\* C2: whenever solve_for(tgt) returns Some(v), eval(Some(v)) equals tgt and
\* v is the only variable value with that property (so that no or several
\* solutions, also under truncating division, give None).
C2_SolveForExact ==
    (p21.pc = "done" /\ p21.res.k = "some") =>
        P21Solutions(p21.expr, p21.tgt) = {p21.res.v}

C2_Witness ==
    /\ p21.pc = "done"
    /\ p21.expr = Bin("Mul", C(2), V(0))
    /\ p21.tgt = 3
    /\ p21.res = Some(1)

(***************************************************************************)
(* p21: load_input, the loop that resolves the pending monkey definitions  *)
(***************************************************************************)
\* the names that have a defining line, and a name that has none
P21Names == {"root", "humn", "aaaa"}

P21Undefined == "zzzz"

P21Ops == {"+", "/"}

\* enum Val of load_input
ValC(x) == [t |-> "C", x |-> x]

ValV(x) == [t |-> "V", x |-> x]

ValOp(l, op, r) == [t |-> "Op", l |-> l, op |-> op, r |-> r]

\* a value matched by (\d+|[a-z]{4} [-+*/] [a-z]{4})
P21Vals ==
    {ValC(x) : x \in 0..P21MaxConst}
        \cup {ValOp(l, op, r) : l \in P21Names \cup {P21Undefined}, op \in P21Ops,
                                r \in P21Names \cup {P21Undefined}}

\* the name_map collected from the lines
P21NameMaps == UNION {[D -> P21Vals] : D \in SUBSET P21Names}

\* the orders in which a HashMap may hand out its keys
Orders(S) == {q \in [1..Cardinality(S) -> S] : \A i, j \in DOMAIN q : i # j => q[i] # q[j]}

\* const_fold: an operation on two constants becomes a constant
const_fold(e) ==
    IF e.op \in BinOps /\ e.l.op = "C" /\ e.r.op = "C"
    THEN eval(e, None)
    ELSE Some(e)

OpExpr(op, l, r) == Bin(IF op = "+" THEN "Add" ELSE IF op = "-" THEN "Sub"
                        ELSE IF op = "*" THEN "Mul" ELSE "Div", l, r)

InitP21L ==
    /\ p21l \in [pc : {"start"}, name_map : P21NameMaps, pending : {<<>>},
                 exprs : {<<>>}]
    /\ p25 = Idle /\ p21 = Idle /\ p17 = Idle /\ p24 = Idle
    /\ p15 = Idle /\ p16 = Idle /\ p16s = Idle
    /\ p11 = Idle /\ p19 = Idle /\ p14 = Idle /\ p22 = Idle /\ p20 = Idle

\* lines 184-189: the human node becomes the variable, the map becomes a queue
P21LoadHuman ==
    /\ p21l.pc = "start"
    /\ IF "humn" \notin DOMAIN p21l.name_map
          \/ p21l.name_map["humn"].t # "C"
       THEN p21l' = [p21l EXCEPT !.pc = "err"]
       ELSE \E q \in Orders(DOMAIN p21l.name_map) :
               p21l' = [p21l EXCEPT
                          !.pc = "loop",
                          !.name_map["humn"] = ValV(p21l.name_map["humn"].x),
                          !.pending = q]
    /\ UNCHANGED <<p25, p21, p17, p24, p15, p16, p16s, p11, p19, p14, p22, p20>>

\* one iteration of the while-let loop of lines 190-215
P21LoadStep ==
    /\ p21l.pc = "loop"
    /\ p21l.pending # <<>>
    /\ LET name == Head(p21l.pending)
           val  == p21l.name_map[name]
           rest == Tail(p21l.pending)
           done == DOMAIN p21l.exprs
       IN  IF val.t = "Op" /\ ~(val.l \in done /\ val.r \in done)
           THEN p21l' = [p21l EXCEPT !.pending = Append(rest, name)]
           ELSE LET expr == IF val.t = "C" THEN C(val.x)
                            ELSE IF val.t = "V" THEN V(val.x)
                            ELSE OpExpr(val.op, p21l.exprs[val.l], p21l.exprs[val.r])
                    folded == IF expr.op \in BinOps THEN const_fold(expr) ELSE Some(expr)
                IN  IF folded.k = "panic"
                    THEN p21l' = [p21l EXCEPT !.pc = "panic", !.pending = rest]
                    ELSE p21l' = [p21l EXCEPT
                                    !.pending = rest,
                                    !.exprs = [n \in done \cup {name} |->
                                                 IF n = name THEN folded.v
                                                 ELSE p21l.exprs[n]]]
    /\ UNCHANGED <<p25, p21, p17, p24, p15, p16, p16s, p11, p19, p14, p22, p20>>

\* lines 217-220: the queue is empty, the root element is looked up
P21LoadRoot ==
    /\ p21l.pc = "loop"
    /\ p21l.pending = <<>>
    /\ p21l' = [p21l EXCEPT !.pc = IF "root" \in DOMAIN p21l.exprs THEN "ok" ELSE "err"]
    /\ UNCHANGED <<p25, p21, p17, p24, p15, p16, p16s, p11, p19, p14, p22, p20>>

NextP21L == P21LoadHuman \/ P21LoadStep \/ P21LoadRoot

SpecP21L == InitP21L /\ [][NextP21L]_vars

\* the loop runs as long as it can make a step
SpecP21LFair == SpecP21L /\ WF_vars(NextP21L)

P21Returned == p21l.pc \in {"ok", "err", "panic"}

\* C10: load_input terminates for every input that matched the line pattern,
\* with an error when an operand has no defining line or the definitions
\* depend on each other cyclically.
C10_LoadTerminates == <>P21Returned

(***************************************************************************)
(* p15: the sweep over the rows, relevant_beacons and beacon_spans         *)
(***************************************************************************)
P15MaxY == 2

P15MaxD == 1

P15MaxLen == 2

\* struct Reading
Reading(px, py, bx, by) == [position |-> <<px, py>>, beacon |-> <<bx, by>>]

radius(r) == Abs(r.position[1] - r.beacon[1]) + Abs(r.position[2] - r.beacon[2])

\* struct Span, the cells [start, end)
span_at(r, y) ==
    LET rad   == radius(r)
        dy    == Abs(r.position[2] - y)
        width == Max((2 * rad + 1) - 2 * dy, 0)
        half  == TruncDiv(width - 1, 2)
    IN  [start |-> r.position[1] - half,
         end   |-> IF width = 0 THEN r.position[1] ELSE r.position[1] + half + 1]

\* sort_unstable_by_key(|span| span.start), as an insertion sort
RECURSIVE insert_span(_, _)
insert_span(sorted, sp) ==
    IF sorted = <<>> THEN <<sp>>
    ELSE IF sp.start < Head(sorted).start THEN <<sp>> \o sorted
    ELSE <<Head(sorted)>> \o insert_span(Tail(sorted), sp)

RECURSIVE sort_spans(_)
sort_spans(spans) ==
    IF spans = <<>> THEN <<>>
    ELSE insert_span(sort_spans(Tail(spans)), Head(spans))

\* the merge loop of beacon_spans: cur is cur_span, None when cur.k = "none"
RECURSIVE merge_spans(_, _, _)
merge_spans(covered, cur, final) ==
    IF covered = <<>>
    THEN IF cur.k = "some" THEN Append(final, cur.v) ELSE final
    ELSE LET sp == Head(covered) IN
         IF cur.k = "some"
         THEN IF cur.v.end >= sp.start
              THEN merge_spans(Tail(covered),
                               Some([cur.v EXCEPT !.end = Max(sp.end, cur.v.end)]), final)
              ELSE merge_spans(Tail(covered), Some(sp), Append(final, cur.v))
         ELSE merge_spans(Tail(covered), Some(sp), final)

RECURSIVE covered_spans(_, _, _, _)
covered_spans(input, relevant, row, i) ==
    IF i > Len(input) THEN <<>>
    ELSE LET sp == span_at(input[i], row) IN
         (IF i \in relevant /\ sp.end > sp.start THEN <<sp>> ELSE <<>>)
             \o covered_spans(input, relevant, row, i + 1)

\* the closure beacon_spans passes to relevant_beacons: the span list of a row
row_spans(input, row, relevant) ==
    merge_spans(sort_spans(covered_spans(input, relevant, row, 1)), None, <<>>)

\* struct Event of relevant_beacons
Event(rel, y, reading) == [relevant |-> rel, y |-> y, reading |-> reading]

\* the events the heap holds before the loop
start_events(input) ==
    {Event(TRUE, input[i].position[2] - radius(input[i]), i) : i \in 1..Len(input)}

\* the row that follows the last row the inner while loop runs func over
rows_end(y, next_row, max) == Max(next_row, Min(y, max))

\* sensors in column 0, the beacon up to P15MaxD away along each axis
P15Readings ==
    {Reading(0, py, dx, py + dy) : py \in 0..P15MaxY, dx \in 0..P15MaxD, dy \in 0..P15MaxD}

P15Inputs == UNION {[1..n -> P15Readings] : n \in 1..P15MaxLen}

P15Rows == (-(2 * P15MaxD + 1))..(P15MaxY + 2 * P15MaxD + 1)

InitP15 ==
    /\ \E input \in P15Inputs, min \in P15Rows, max \in P15Rows :
          /\ min <= max
          /\ p15 = [pc |-> "loop", input |-> input, min |-> min, max |-> max,
                    events |-> start_events(input), relevant |-> {},
                    next_row |-> min, calls |-> <<>>, output |-> <<>>]
    /\ p25 = Idle /\ p21 = Idle /\ p21l = Idle /\ p17 = Idle /\ p24 = Idle
    /\ p16 = Idle /\ p16s = Idle
    /\ p11 = Idle /\ p19 = Idle /\ p14 = Idle /\ p22 = Idle /\ p20 = Idle

\* one iteration of `while let Some(event) = events.pop()`; the heap hands out
\* an event of the smallest y, any of them when several have it
P15Pop ==
    /\ p15.pc = "loop"
    /\ \E event \in p15.events :
          /\ \A e \in p15.events : event.y <= e.y
          /\ LET stop   == rows_end(event.y, p15.next_row, p15.max)
                 n      == stop - p15.next_row
                 called == [k \in 1..n |-> [row |-> p15.next_row + k - 1,
                                            relevant |-> p15.relevant]]
                 spans  == [k \in 1..n |->
                              row_spans(p15.input, p15.next_row + k - 1, p15.relevant)]
                 rest   == p15.events \ {event}
                 r      == p15.input[event.reading]
             IN  p15' = [p15 EXCEPT
                    !.calls = p15.calls \o called,
                    !.output = p15.output \o spans,
                    !.next_row = stop,
                    !.pc = IF stop >= p15.max THEN "done" ELSE "loop",
                    !.events = IF stop >= p15.max THEN rest
                               ELSE IF event.relevant
                               THEN rest \cup {Event(FALSE, r.position[2] + radius(r),
                                                     event.reading)}
                               ELSE rest,
                    !.relevant = IF stop >= p15.max THEN p15.relevant
                                 ELSE IF event.relevant
                                 THEN p15.relevant \cup {event.reading}
                                 ELSE p15.relevant \ {event.reading}]
    /\ UNCHANGED <<p25, p21, p21l, p17, p24, p16, p16s, p11, p19, p14, p22, p20>>

\* events.pop() returns None: the loop and the function end
P15Exhausted ==
    /\ p15.pc = "loop"
    /\ p15.events = {}
    /\ p15' = [p15 EXCEPT !.pc = "done"]
    /\ UNCHANGED <<p25, p21, p21l, p17, p24, p16, p16s, p11, p19, p14, p22, p20>>

NextP15 == P15Pop \/ P15Exhausted

SpecP15 == InitP15 /\ [][NextP15]_vars

\* C6: relevant_beacons calls the callback exactly once for each row of
\* [min, max), in increasing order, so that beacon_spans returns max - min
\* span lists, also when the coverage of every sensor ends above row max - 1.
C6_EveryRowCalled ==
    p15.pc = "done" =>
        /\ Len(p15.calls) = p15.max - p15.min
        /\ \A k \in 1..Len(p15.calls) : p15.calls[k].row = p15.min + k - 1
        /\ Len(p15.output) = p15.max - p15.min

\* the reading covers at least one cell of row y
covers_row(r, y) == Abs(r.position[2] - y) <= radius(r)

\* C7: the set of relevant readings handed to the callback for row y holds
\* every reading whose coverage includes a cell of row y, the rows
\* sensor.y - radius and sensor.y + radius included.
C7_RelevantComplete ==
    p15.pc # "idle" =>
        \A k \in 1..Len(p15.calls) :
            \A i \in 1..Len(p15.input) :
                covers_row(p15.input[i], p15.calls[k].row) => i \in p15.calls[k].relevant

C6_Witness ==
    /\ p15.pc = "done"
    /\ p15.max - p15.min >= 2
    /\ Len(p15.calls) = p15.max - p15.min
    /\ \E i \in 1..Len(p15.input) : covers_row(p15.input[i], p15.max - 1)

C7_Witness ==
    /\ p15.pc = "done"
    /\ \E k \in 1..Len(p15.calls) : \E i \in 1..Len(p15.input) :
          /\ i \in p15.calls[k].relevant
          /\ p15.calls[k].row = p15.input[i].position[2] - radius(p15.input[i])
          /\ radius(p15.input[i]) > 0

(***************************************************************************)
(* p17: the falling rocks and the cycle detection of simulate_floyd        *)
(***************************************************************************)
P17MaxJetLen == 1

CONTEXT == 256

\* u8 bit operations
RECURSIVE BitAnd(_, _, _)
BitAnd(a, b, w) ==
    IF w = 0 THEN 0
    ELSE (IF a % 2 = 1 /\ b % 2 = 1 THEN 1 ELSE 0) + 2 * BitAnd(a \div 2, b \div 2, w - 1)

RECURSIVE BitOr(_, _, _)
BitOr(a, b, w) ==
    IF w = 0 THEN 0
    ELSE (IF a % 2 = 1 \/ b % 2 = 1 THEN 1 ELSE 0) + 2 * BitOr(a \div 2, b \div 2, w - 1)

Shl8(a, k) == (a * Pow(2, k)) % 256

Shape(lines, width, height) == [lines |-> lines, width |-> width, height |-> height]

ROCKS == <<Shape(<<0, 0, 0, 15>>, 4, 1),
           Shape(<<0, 2, 7, 2>>, 3, 3),
           Shape(<<0, 1, 1, 7>>, 3, 3),
           Shape(<<1, 1, 1, 1>>, 1, 4),
           Shape(<<0, 0, 3, 3>>, 2, 2)>>

\* positions are <<x, y>>, x = 0 the right-hand column, y = 0 the bottom row;
\* row y of the board is rows[y + 1]
drop_pos(rows, width) == <<7 - (width + 2), Len(rows) + 3>>

collides(rows, rock, pos) ==
    LET row_min == Min(pos[2], Len(rows))
        row_max == Min(pos[2] + rock.height, Len(rows))
    IN  IF row_min >= Len(rows) THEN FALSE
        ELSE \E j \in 0..(row_max - row_min - 1) :
                BitAnd(rows[row_min + j + 1], Shl8(rock.lines[4 - j], pos[1]), 8) # 0

place(rows, rock, pos) ==
    LET max_y  == pos[2] + rock.height
        padded == IF max_y > Len(rows)
                  THEN rows \o [k \in 1..(max_y - Len(rows)) |-> 0]
                  ELSE rows
        placed == [j \in 1..rock.height |->
                     BitOr(padded[pos[2] + j], Shl8(rock.lines[5 - j], pos[1]), 8)]
    IN  SubSeq(padded, 1, pos[2]) \o placed \o SubSeq(padded, max_y + 1, Len(padded))

\* one iteration of the loop of step: a push by the jet input[t], then a fall
\* by one row; landed is set where the loop breaks
fall_iter(input, rows, rock, f) ==
    IF f.landed THEN f
    ELSE LET cand   == IF input[f.t + 1] = "<"
                       THEN <<Min(f.pos[1] + 1, 7 - rock.width), f.pos[2]>>
                       ELSE <<Max(f.pos[1] - 1, 0), f.pos[2]>>
             pushed == IF collides(rows, rock, cand) THEN f.pos ELSE cand
             t2     == (f.t + 1) % Len(input)
             below  == <<pushed[1], pushed[2] - 1>>
         IN  IF pushed[2] = 0 \/ collides(rows, rock, below)
             THEN [pos |-> pushed, t |-> t2, landed |-> TRUE]
             ELSE [pos |-> below, t |-> t2, landed |-> FALSE]

\* n iterations of the loop, halving n so that the evaluation nests
\* to a depth of log n
RECURSIVE fall_n(_, _, _, _, _)
fall_n(input, rows, rock, f, n) ==
    IF f.landed THEN f
    ELSE IF n = 1 THEN fall_iter(input, rows, rock, f)
    ELSE fall_n(input, rows, rock, fall_n(input, rows, rock, f, n \div 2), n - (n \div 2))

\* the loop of step, run until the rock lands
RECURSIVE fall(_, _, _, _, _)
fall(input, rows, rock, f, n) ==
    LET g == fall_n(input, rows, rock, f, n) IN
    IF g.landed THEN g ELSE fall(input, rows, rock, g, 2 * n)

\* struct State of simulate_floyd
State(rows, t, rock_idx) == [rows |-> rows, t |-> t, rock_idx |-> rock_idx]

\* drop one rock
step(input, s) ==
    LET rock   == ROCKS[s.rock_idx + 1]
        landed == fall(input, s.rows, rock,
                       [pos |-> drop_pos(s.rows, rock.width), t |-> s.t, landed |-> FALSE], 4)
    IN  State(place(s.rows, rock, landed.pos), landed.t, (s.rock_idx + 1) % Len(ROCKS))

Top(rows) == SubSeq(rows, Max(Len(rows) - CONTEXT, 0) + 1, Len(rows))

board_compare(a, b) ==
    /\ a.t = b.t
    /\ a.rock_idx = b.rock_idx
    /\ Top(a.rows) = Top(b.rows)

x0 == State(<<>>, 0, 0)

\* the jet patterns: every pattern of up to P17MaxJetLen jets, and a pattern
\* which builds a tower beside a well that is deeper than CONTEXT rows
P17ShortPatterns == UNION {[1..n -> {"<", ">"}] : n \in 1..P17MaxJetLen}

P17WellPattern == [i \in 1..(544 + 288) |-> IF i <= 544 THEN "<" ELSE ">"]

P17Inputs ==
    {<<pat, n>> : pat \in P17ShortPatterns, n \in {0, 1, 100, 230}}
        \cup {<<P17WellPattern, 877>>}

InitP17 ==
    /\ \E inp \in P17Inputs :
          p17 = [pc |-> "detect", input |-> inp[1], rocks |-> inp[2],
                 tortoise |-> step(inp[1], x0),
                 hare |-> step(inp[1], step(inp[1], x0)),
                 offset |-> 0, period |-> 0, period_start_state |-> x0,
                 x |-> x0, temp |-> x0, i |-> 0, rep_height |-> 0,
                 result |-> 0, naive |-> x0]
    /\ p25 = Idle /\ p21 = Idle /\ p21l = Idle /\ p24 = Idle
    /\ p15 = Idle /\ p16 = Idle /\ p16s = Idle
    /\ p11 = Idle /\ p19 = Idle /\ p14 = Idle /\ p22 = Idle /\ p20 = Idle

P17Reps == (p17.rocks - p17.offset) \div p17.period

P17RepOffset == (p17.rocks - p17.offset) % p17.period

\* lines 182-188: the tortoise and the hare run until they compare equal
P17Detect ==
    /\ p17.pc = "detect"
    /\ IF ~board_compare(p17.tortoise, p17.hare)
       THEN p17' = [p17 EXCEPT
                      !.tortoise = step(p17.input, p17.tortoise),
                      !.hare = step(p17.input, step(p17.input, p17.hare))]
       ELSE p17' = [p17 EXCEPT !.pc = "offset", !.offset = 0, !.tortoise = x0]
    /\ UNCHANGED <<p25, p21, p21l, p24, p15, p16, p16s, p11, p19, p14, p22, p20>>

\* lines 189-198: the offset of the first state of the cycle
P17Offset ==
    /\ p17.pc = "offset"
    /\ IF ~board_compare(p17.tortoise, p17.hare)
       THEN p17' = [p17 EXCEPT
                      !.tortoise = step(p17.input, p17.tortoise),
                      !.hare = step(p17.input, p17.hare),
                      !.offset = p17.offset + 1]
       ELSE p17' = [p17 EXCEPT
                      !.pc = "period",
                      !.period_start_state = p17.tortoise,
                      !.period = 1,
                      !.hare = step(p17.input, p17.tortoise)]
    /\ UNCHANGED <<p25, p21, p21l, p24, p15, p16, p16s, p11, p19, p14, p22, p20>>

\* lines 199-204: the length of the cycle
P17Period ==
    /\ p17.pc = "period"
    /\ IF ~board_compare(p17.tortoise, p17.hare)
       THEN p17' = [p17 EXCEPT
                      !.hare = step(p17.input, p17.hare),
                      !.period = p17.period + 1]
       ELSE p17' = [p17 EXCEPT !.pc = "prefix", !.tortoise = x0, !.hare = x0,
                                !.x = x0, !.i = 0]
    /\ UNCHANGED <<p25, p21, p21l, p24, p15, p16, p16s, p11, p19, p14, p22, p20>>

\* lines 214-220: the steps before the cycle
P17Prefix ==
    /\ p17.pc = "prefix"
    /\ IF p17.i < Min(p17.rocks, p17.offset)
       THEN p17' = [p17 EXCEPT !.x = step(p17.input, p17.x), !.i = p17.i + 1]
       ELSE IF p17.rocks <= p17.offset
       THEN p17' = [p17 EXCEPT !.pc = "done", !.result = Len(p17.x.rows), !.i = 0]
       ELSE IF P17Reps > 0
       THEN p17' = [p17 EXCEPT !.pc = "rep", !.temp = p17.period_start_state, !.i = 0]
       ELSE p17' = [p17 EXCEPT !.pc = "tail", !.rep_height = 0, !.i = 0]
    /\ UNCHANGED <<p25, p21, p21l, p24, p15, p16, p16s, p11, p19, p14, p22, p20>>

\* lines 226-237: the growth of the tower over one cycle, times the cycles
P17Rep ==
    /\ p17.pc = "rep"
    /\ IF p17.i < p17.period
       THEN p17' = [p17 EXCEPT !.temp = step(p17.input, p17.temp), !.i = p17.i + 1]
       ELSE p17' = [p17 EXCEPT
                      !.pc = "tail",
                      !.rep_height = (Len(p17.temp.rows) - Len(p17.x.rows)) * P17Reps,
                      !.temp = x0,
                      !.i = 0]
    /\ UNCHANGED <<p25, p21, p21l, p24, p15, p16, p16s, p11, p19, p14, p22, p20>>

\* lines 240-244: the steps after the last whole cycle
P17Tail ==
    /\ p17.pc = "tail"
    /\ IF p17.i < P17RepOffset
       THEN p17' = [p17 EXCEPT !.x = step(p17.input, p17.x), !.i = p17.i + 1]
       ELSE p17' = [p17 EXCEPT !.pc = "done",
                                !.result = Len(p17.x.rows) + p17.rep_height,
                                !.i = 0]
    /\ UNCHANGED <<p25, p21, p21l, p24, p15, p16, p16s, p11, p19, p14, p22, p20>>

\* the single-rock step function applied rocks times from the empty board
P17Naive ==
    /\ p17.pc = "done"
    /\ IF p17.i < p17.rocks
       THEN p17' = [p17 EXCEPT !.naive = step(p17.input, p17.naive), !.i = p17.i + 1]
       ELSE p17' = [p17 EXCEPT !.pc = "checked"]
    /\ UNCHANGED <<p25, p21, p21l, p24, p15, p16, p16s, p11, p19, p14, p22, p20>>

NextP17 == P17Detect \/ P17Offset \/ P17Period \/ P17Prefix \/ P17Rep \/ P17Tail \/ P17Naive

SpecP17 == InitP17 /\ [][NextP17]_vars

\* C3: simulate_floyd(input, n) returns the height of the tower that n
\* applications of step build from the empty board, for every jet pattern
\* and every n.
C3_FloydEqualsNaive ==
    p17.pc = "checked" => p17.result = Len(p17.naive.rows)

C3_Witness ==
    /\ p17.pc = "checked"
    /\ p17.rocks > p17.offset + p17.period
    /\ p17.result = Len(p17.naive.rows)

(***************************************************************************)
(* p24: the blizzards and the breadth-first search of shortest             *)
(***************************************************************************)
P24MaxW == 3

P24MaxH == 2

P24MaxBlizzards == 2

\* the minutes the model follows the search for
P24MaxT == 16

Bit(n, i) == (n \div Pow(2, i)) % 2

\* Rotate the k lowest-order bits of n leftwards: ((n << 1) & mask) | b
rot_left(n, k) == ((2 * n) % Pow(2, k)) + Bit(n, k - 1)

\* Rotate the k lowest-order bits of n rightwards: (n >> 1) | (b << (k-1))
rot_right(n, k) == (n \div 2) + (n % 2) * Pow(2, k - 1)

\* for x in words.iter_mut() { *x = rot(*x, k) }
RECURSIVE rot_all(_, _, _)
rot_all(words, k, to_left) ==
    IF words = <<>> THEN <<>>
    ELSE <<IF to_left THEN rot_left(Head(words), k) ELSE rot_right(Head(words), k)>>
             \o rot_all(Tail(words), k, to_left)

\* Blizzards::step
storm_step(b) ==
    [width |-> b.width, height |-> b.height,
     up    |-> rot_all(b.up, b.height, FALSE),
     down  |-> rot_all(b.down, b.height, TRUE),
     left  |-> rot_all(b.left, b.width, FALSE),
     right |-> rot_all(b.right, b.width, TRUE)]

\* Blizzards::is_free; pos = <<x, y>>, column x is up[x + 1], row y is left[y + 1]
is_free(b, pos) ==
    /\ Bit(b.up[pos[1] + 1], pos[2]) = 0
    /\ Bit(b.down[pos[1] + 1], pos[2]) = 0
    /\ Bit(b.left[pos[2] + 1], pos[1]) = 0
    /\ Bit(b.right[pos[2] + 1], pos[1]) = 0

\* the word with the bits of S set
RECURSIVE SetMask(_)
SetMask(S) ==
    IF S = {} THEN 0
    ELSE LET e == CHOOSE e \in S : TRUE IN Pow(2, e) + SetMask(S \ {e})

\* load_input, lines 103-138: the bitmasks of a grid of cells
load_storms(w, h, cells) ==
    LET colmask(x, c) == SetMask({y \in 0..(h - 1) : cells[<<x, y>>] = c})
        rowmask(y, c) == SetMask({x \in 0..(w - 1) : cells[<<x, y>>] = c})
    IN  [up    |-> [x \in 1..w |-> colmask(x - 1, "^")],
         down  |-> [x \in 1..w |-> colmask(x - 1, "v")],
         left  |-> [y \in 1..h |-> rowmask(y - 1, "<")],
         right |-> [y \in 1..h |-> rowmask(y - 1, ">")],
         width |-> w, height |-> h]

\* crate::grid::Grid<bool> as the set of the cells that hold true
grid_filled_false == {}

grid_get(g, pos) == pos \in g

grid_set_true(g, pos) == g \cup {pos}

\* the grids: at most P24MaxBlizzards blizzards on a board of 1..P24MaxW
\* by 1..P24MaxH cells
P24Cells(w, h) == (0..(w - 1)) \X (0..(h - 1))

P24Grids(w, h) ==
    {c \in [P24Cells(w, h) -> {".", "^", "v", "<", ">"}] :
        Cardinality({q \in P24Cells(w, h) : c[q] # "."}) <= P24MaxBlizzards}

\* the moves of the search in the order of lines 211-227
moves(pos, max_w, max_h) ==
    (IF pos[1] > 0 THEN <<(<<pos[1] - 1, pos[2]>>)>> ELSE <<>>)
        \o (IF pos[1] < max_w THEN <<(<<pos[1] + 1, pos[2]>>)>> ELSE <<>>)
        \o (IF pos[2] > 0 THEN <<(<<pos[1], pos[2] - 1>>)>> ELSE <<>>)
        \o (IF pos[2] < max_h THEN <<(<<pos[1], pos[2] + 1>>)>> ELSE <<>>)

\* lines 211-227: the moves are queued for t + 1 unless seen, then the wait
RECURSIVE push_moves(_, _, _, _, _)
push_moves(ms, next_storm, t, states, seen) ==
    IF ms = <<>> THEN [states |-> states, seen |-> seen]
    ELSE LET q == Head(ms) IN
         IF is_free(next_storm, q) /\ ~grid_get(seen, q)
         THEN push_moves(Tail(ms), next_storm, t,
                         Append(states, [t |-> t + 1, pos |-> q]), grid_set_true(seen, q))
         ELSE push_moves(Tail(ms), next_storm, t, states, seen)

InitP24 ==
    /\ \E w \in 1..P24MaxW, h \in 1..P24MaxH :
        \E cells \in P24Grids(w, h), enter_col \in 0..(w - 1), leave_col \in 0..(w - 1) :
          LET storms == load_storms(w, h, cells) IN
          p24 = [pc |-> "outer", input |-> storms,
                 start |-> <<enter_col, 0>>, end |-> <<leave_col, h - 1>>,
                 storms |-> storms, next_storm |-> storm_step(storms),
                 storm_t |-> 1, states |-> <<>>, seen |-> grid_filled_false,
                 result |-> None]
    /\ p25 = Idle /\ p21 = Idle /\ p21l = Idle /\ p17 = Idle
    /\ p15 = Idle /\ p16 = Idle /\ p16s = Idle
    /\ p11 = Idle /\ p19 = Idle /\ p14 = Idle /\ p22 = Idle /\ p20 = Idle

\* lines 181-188: the top of `loop`
P24Outer ==
    /\ p24.pc = "outer"
    /\ IF ~is_free(p24.storms, p24.start)
       THEN /\ p24.storm_t < P24MaxT
            /\ p24' = [p24 EXCEPT !.storms = storm_step(p24.storms),
                                  !.next_storm = storm_step(p24.next_storm),
                                  !.storm_t = p24.storm_t + 1]
       ELSE p24' = [p24 EXCEPT !.pc = "inner",
                               !.states = Append(p24.states,
                                                 [t |-> p24.storm_t, pos |-> p24.start])]
    /\ UNCHANGED <<p25, p21, p21l, p17, p15, p16, p16s, p11, p19, p14, p22, p20>>

\* lines 190-229: one iteration of `while let Some(..) = states.pop_front()`
P24Pop ==
    /\ p24.pc = "inner"
    /\ p24.states # <<>>
    /\ LET st      == Head(p24.states)
           rest    == Tail(p24.states)
           advance == st.t > p24.storm_t
           storms  == IF advance THEN storm_step(p24.storms) ELSE p24.storms
           nxt     == IF advance THEN storm_step(p24.next_storm) ELSE p24.next_storm
           storm_t == IF advance THEN p24.storm_t + 1 ELSE p24.storm_t
           queue   == IF advance /\ is_free(storms, p24.start)
                         /\ ~grid_get(p24.seen, p24.start)
                      THEN Append(rest, [t |-> storm_t, pos |-> p24.start])
                      ELSE rest
           seen    == IF advance THEN grid_filled_false ELSE p24.seen
           pushed  == push_moves(moves(st.pos, p24.input.width - 1, p24.input.height - 1),
                                 nxt, st.t, queue, seen)
       IN  /\ advance => p24.storm_t < P24MaxT
           /\ IF ~is_free(storms, st.pos)
              THEN p24' = [p24 EXCEPT !.storms = storms, !.next_storm = nxt,
                                      !.storm_t = storm_t, !.states = queue,
                                      !.seen = seen]
              ELSE IF st.pos = p24.end
              THEN p24' = [p24 EXCEPT !.pc = "done", !.storms = storms,
                                      !.next_storm = nxt, !.storm_t = storm_t,
                                      !.states = queue, !.seen = seen,
                                      !.result = Some([t |-> st.t, storms |-> storms])]
              ELSE p24' = [p24 EXCEPT !.storms = storms, !.next_storm = nxt,
                                      !.storm_t = storm_t,
                                      !.states = Append(pushed.states,
                                                        [t |-> st.t + 1, pos |-> st.pos]),
                                      !.seen = pushed.seen]
    /\ UNCHANGED <<p25, p21, p21l, p17, p15, p16, p16s, p11, p19, p14, p22, p20>>

\* the queue is empty: the while loop ends and `loop` starts over
P24Restart ==
    /\ p24.pc = "inner"
    /\ p24.states = <<>>
    /\ p24' = [p24 EXCEPT !.pc = "outer"]
    /\ UNCHANGED <<p25, p21, p21l, p17, p15, p16, p16s, p11, p19, p14, p22, p20>>

NextP24 == P24Outer \/ P24Pop \/ P24Restart

SpecP24 == InitP24 /\ [][NextP24]_vars

\* the search goes on as long as it can make a step
SpecP24Fair == SpecP24 /\ WF_vars(NextP24)

\* the blizzards after n minutes
RECURSIVE storms_at(_, _)
storms_at(b, n) == IF n = 0 THEN b ELSE storms_at(storm_step(b), n - 1)

\* the cells of cands (a sequence) that are free under b and are start or
\* next to, or equal to, a cell of cur
RECURSIVE next_places(_, _, _, _)
next_places(cands, cur, b, start) ==
    IF cands = <<>> THEN <<>>
    ELSE LET q == Head(cands) IN
         (IF is_free(b, q)
             /\ (q = start \/ \E i \in 1..Len(cur) :
                                Abs(cur[i][1] - q[1]) + Abs(cur[i][2] - q[2]) <= 1)
          THEN <<q>> ELSE <<>>) \o next_places(Tail(cands), cur, b, start)

\* The safe move sequences: the actor stands outside the board at the entry at
\* minute 0; every minute it waits, steps from the entry onto start, moves to a
\* 4-neighbour inside the board, or steps from end out of the board.  cur holds
\* the cells it can be on at minute m - 1, b the blizzards at minute m - 1.
RECURSIVE min_minutes(_, _, _, _, _, _)
min_minutes(b, start, end, all, cur, m) ==
    IF \E i \in 1..Len(cur) : cur[i] = end THEN m
    ELSE IF m > P24MaxT + 1 THEN 0
    ELSE min_minutes(storm_step(b), start, end, all,
                     next_places(all, cur, storm_step(b), start), m + 1)

\* the cells of a board, as a sequence
RECURSIVE cells_seq(_, _, _)
cells_seq(w, h, i) ==
    IF i = w * h THEN <<>>
    ELSE <<(<<i % w, i \div w>>)>> \o cells_seq(w, h, i + 1)

\* the minimum number of minutes of a safe move sequence, 0 when there is none
P24Minimum ==
    min_minutes(p24.input, p24.start, p24.end,
                cells_seq(p24.input.width, p24.input.height, 0), <<>>, 1)

\* C4: shortest returns Some((t, s)) with t the minimum number of minutes of
\* a safe move sequence from the entry to the exit and s the blizzards at the
\* minute the actor arrives on the cell end.
C4_ShortestIsMinimum ==
    p24.pc = "done" =>
        /\ p24.result.k = "some"
        /\ p24.result.v.t = P24Minimum
        /\ p24.result.v.storms = storms_at(p24.input, p24.result.v.t - 1)

C4_Witness ==
    /\ p24.pc = "done"
    /\ p24.result.v.t = P24Minimum
    /\ p24.result.v.t > p24.input.width + p24.input.height

\* no safe move sequence from the entry to the exit exists
P24NoPath == p24.pc # "idle" /\ P24Minimum = 0

P24BoundOnlyCutsNoPath ==
    (p24.pc # "idle" /\ p24.pc # "done" /\ p24.storm_t = P24MaxT) => P24Minimum = 0

(***************************************************************************)
(* p16: valves -- branch and bound over the orders of opening valves       *)
(***************************************************************************)
P16MaxValves == 3

P16MaxFlow == 2

P16MaxT == 5

\* stands for usize::MAX, the distance between valves not known to be joined
USIZE_MAX == 2147483647

QUEUE_LIMIT == 1000000000

SOLVE2_T == 26

TOO_MANY_VALVES == 16

Valve(flow, neighbors) == [flow |-> flow, neighbors |-> neighbors]

saturating_add(a, b) == IF a = USIZE_MAX \/ b = USIZE_MAX THEN USIZE_MAX ELSE a + b

saturating_sub(a, b) == IF a > b THEN a - b ELSE 0

\* first loop of all_pairs: output[k][k] = 0, then output[k][n] = 1 for the neighbours
RECURSIVE ap_neighbors(_, _, _)
ap_neighbors(row, neighbors, i) ==
    IF i > Len(neighbors) THEN row
    ELSE ap_neighbors([row EXCEPT ![neighbors[i] + 1] = 1], neighbors, i + 1)

RECURSIVE ap_const(_, _)
ap_const(n, x) == IF n = 0 THEN <<>> ELSE <<x>> \o ap_const(n - 1, x)

RECURSIVE ap_init(_, _)
ap_init(input, k) ==
    IF k = Len(input) THEN <<>>
    ELSE <<ap_neighbors([ap_const(Len(input), USIZE_MAX) EXCEPT ![k + 1] = 0],
                        input[k + 1].neighbors, 1)>>
         \o ap_init(input, k + 1)

\* the relaxation loops of all_pairs, cell by cell and in place, in the order k, i, j
RECURSIVE ap_relax(_, _, _, _, _)
ap_relax(output, n, k, i, j) ==
    IF k = n THEN output
    ELSE IF i = n THEN ap_relax(output, n, k + 1, 0, 0)
    ELSE IF j = n THEN ap_relax(output, n, k, i + 1, 0)
    ELSE ap_relax([output EXCEPT ![i + 1][j + 1] =
                      Min(output[i + 1][j + 1],
                          saturating_add(output[i + 1][k + 1], output[k + 1][j + 1]))],
                  n, k, i, j + 1)

all_pairs(input) == ap_relax(ap_init(input, 0), Len(input), 0, 0, 0)

Partial(avail, cum_flow, score, pos, t) ==
    [avail |-> avail, cum_flow |-> cum_flow, score |-> score, pos |-> pos, t |-> t]

is_avail(st, idx) == Bit(st.avail, idx) # 0

lower_bound(st) == st.score

\* 64 - bits.leading_zeros()
RECURSIVE bit_length(_)
bit_length(bits) == IF bits = 0 THEN 0 ELSE 1 + bit_length(bits \div 2)

RECURSIVE ub_loop(_, _, _, _, _)
ub_loop(st, paths, valves, i, s) ==
    IF i >= bit_length(st.avail) THEN s
    ELSE ub_loop(st, paths, valves, i + 1,
                 IF Bit(st.avail, i) # 0
                 THEN s + saturating_sub(st.t, paths[st.pos + 1][i + 1] + 1)
                          * valves[i + 1].flow
                 ELSE s)

\* an estimate that is not an upper bound: the score reached so far
upper_bound_score(st, paths, valves) == st.score

upper_bound(st, paths, valves) == ub_loop(st, paths, valves, 0, st.score)

RECURSIVE branch_from(_, _, _, _)
branch_from(st, paths, valves, idx) ==
    IF idx = Len(valves) THEN <<>>
    ELSE (IF (paths[st.pos + 1][idx + 1] + 1) < st.t /\ is_avail(st, idx)
          THEN LET start_flow_t == st.t - (paths[st.pos + 1][idx + 1] + 1)
                   score_bonus == valves[idx + 1].flow * start_flow_t
               IN  <<Partial(st.avail - Pow(2, idx),
                             st.cum_flow - valves[idx + 1].flow,
                             st.score + score_bonus,
                             idx,
                             start_flow_t)>>
          ELSE <<>>)
         \o branch_from(st, paths, valves, idx + 1)

branch(st, paths, valves) == branch_from(st, paths, valves, 0)

\* paths.retain(..) and the filter of paths.extend(..)
RECURSIVE keep_promising(_, _, _, _)
keep_promising(sts, paths, valves, best_lower) ==
    IF sts = <<>> THEN <<>>
    ELSE (IF upper_bound(Head(sts), paths, valves) > best_lower
          THEN <<Head(sts)>> ELSE <<>>)
         \o keep_promising(Tail(sts), paths, valves, best_lower)

RECURSIVE sum_flows(_, _)
sum_flows(valves, i) ==
    IF i > Len(valves) THEN 0 ELSE valves[i].flow + sum_flows(valves, i + 1)

\* the locals of max_for_subset before its loop
search_start(input, subset, t_max) ==
    [paths |-> <<Partial(subset, sum_flows(input[2], 1), 0, input[1], t_max)>>,
     best_lower |-> 0,
     considered |-> 0]

\* one iteration of the while-let loop of max_for_subset
search_iter(s, all_paths, valves) ==
    LET state == IF Len(s.paths) < QUEUE_LIMIT THEN Head(s.paths)
                 ELSE s.paths[Len(s.paths)]
        rest  == IF Len(s.paths) < QUEUE_LIMIT THEN Tail(s.paths)
                 ELSE SubSeq(s.paths, 1, Len(s.paths) - 1)
        raise == lower_bound(state) > s.best_lower
        best  == IF raise THEN lower_bound(state) ELSE s.best_lower
        kept  == IF raise THEN keep_promising(rest, all_paths, valves, best) ELSE rest
    IN  [paths |-> kept \o keep_promising(branch(state, all_paths, valves),
                                          all_paths, valves, best),
         best_lower |-> best,
         considered |-> s.considered + 1]

RECURSIVE search_run(_, _, _)
search_run(s, all_paths, valves) ==
    IF s.paths = <<>> THEN <<s.best_lower, s.considered>>
    ELSE search_run(search_iter(s, all_paths, valves), all_paths, valves)

max_for_subset(input, apsp, subset, t_max) ==
    search_run(search_start(input, subset, t_max), apsp, input[2])

\* flow_mask of solve1 and solve2: the valves with a flow
RECURSIVE flow_mask_from(_, _)
flow_mask_from(valves, i) ==
    IF i = Len(valves) THEN 0
    ELSE (IF valves[i + 1].flow # 0 THEN Pow(2, i) ELSE 0) + flow_mask_from(valves, i + 1)

flow_mask(valves) == flow_mask_from(valves, 0)

RECURSIVE relevant_from(_, _)
relevant_from(valves, i) ==
    IF i = Len(valves) THEN <<>>
    ELSE (IF valves[i + 1].flow # 0 THEN <<i>> ELSE <<>>) \o relevant_from(valves, i + 1)

relevant_valves(valves) == relevant_from(valves, 0)

\* the loop of solve2's closure: bit j of mask selects relevant_valves[j]
RECURSIVE us_of(_, _, _)
us_of(mask, relevant, j) ==
    IF j > Len(relevant) THEN 0
    ELSE (IF mask % 2 = 1 THEN Pow(2, relevant[j]) ELSE 0)
         + us_of(mask \div 2, relevant, j + 1)

\* the closure of solve2 up to the two fetch_add calls
mask_eval(input, apsp, mask) ==
    LET us   == us_of(mask, relevant_valves(input[2]), 1)
        them == flow_mask(input[2]) - us
        u    == max_for_subset(input, apsp, us, SOLVE2_T)
        t    == max_for_subset(input, apsp, them, SOLVE2_T)
    IN  [us_score |-> u[1], us_st |-> u[2], them_score |-> t[1], them_st |-> t[2]]

\* a reduction that keeps the later result
reduce_last(a, b) == IF b.k = "none" THEN a ELSE b

\* Iterator::max as a reduction of two results of the map
reduce_max(a, b) ==
    IF a.k = "none" THEN b
    ELSE IF b.k = "none" THEN a
    ELSE IF b.v >= a.v THEN b ELSE a

\* The inputs: undirected connected graphs of valves, as load_input resolves them
P16Indices(n) == 0..(n - 1)

P16Pairs(n) == {e \in SUBSET P16Indices(n) : Cardinality(e) = 2}

RECURSIVE P16Reach(_, _)
P16Reach(edges, seen) ==
    LET more == seen \cup {j \in UNION edges : \E i \in seen : {i, j} \in edges}
    IN  IF more = seen THEN seen ELSE P16Reach(edges, more)

P16Connected(n, edges) == P16Reach(edges, {0}) = P16Indices(n)

RECURSIVE P16Neighbors(_, _, _, _)
P16Neighbors(n, edges, i, j) ==
    IF j = n THEN <<>>
    ELSE (IF {i, j} \in edges THEN <<j>> ELSE <<>>) \o P16Neighbors(n, edges, i, j + 1)

RECURSIVE P16Valves(_, _, _, _)
P16Valves(n, edges, flows, i) ==
    IF i = n THEN <<>>
    ELSE <<Valve(flows[i + 1], P16Neighbors(n, edges, i, 0))>>
         \o P16Valves(n, edges, flows, i + 1)

P16Flows == {0, 1, P16MaxFlow}

P16InputsOf(n, starts) ==
    {<<start, P16Valves(n, edges, flows, 0)>> :
        start \in starts,
        edges \in {e \in SUBSET P16Pairs(n) : P16Connected(n, e)},
        flows \in [1..n -> P16Flows]}

\* valve AA is the first valve of the input
P16Inputs == UNION {P16InputsOf(n, {0}) : n \in 1..P16MaxValves}

\* the subsets the callers pass: any part of flow_mask
P16Subsets(valves) ==
    {m \in 0..(Pow(2, Len(valves)) - 1) :
        \A i \in P16Indices(Len(valves)) : Bit(m, i) # 0 => valves[i + 1].flow # 0}

\* ---- max_for_subset, one loop iteration per step ----
InitP16 ==
    /\ \E input \in P16Inputs :
       \E subset \in P16Subsets(input[2]) :
       \E t_max \in {P16MaxT, SOLVE2_T} :
           p16 = [pc |-> "loop", input |-> input, subset |-> subset, t_max |-> t_max,
                  apsp |-> all_pairs(input[2]),
                  s |-> search_start(input, subset, t_max),
                  result |-> <<0, 0>>]
    /\ p25 = Idle /\ p21 = Idle /\ p21l = Idle /\ p17 = Idle /\ p24 = Idle
    /\ p15 = Idle /\ p16s = Idle
    /\ p11 = Idle /\ p19 = Idle /\ p14 = Idle /\ p22 = Idle /\ p20 = Idle

\* while let Some(state) = paths.pop_front() { .. }
P16Iter ==
    /\ p16.pc = "loop"
    /\ p16.s.paths # <<>>
    /\ p16' = [p16 EXCEPT !.s = search_iter(p16.s, p16.apsp, p16.input[2])]
    /\ UNCHANGED <<p25, p21, p21l, p17, p24, p15, p16s, p11, p19, p14, p22, p20>>

\* Ok((best_lower, considered))
P16Return ==
    /\ p16.pc = "loop"
    /\ p16.s.paths = <<>>
    /\ p16' = [p16 EXCEPT !.pc = "done",
                          !.result = <<p16.s.best_lower, p16.s.considered>>]
    /\ UNCHANGED <<p25, p21, p21l, p17, p24, p15, p16s, p11, p19, p14, p22, p20>>

NextP16 == P16Iter \/ P16Return

SpecP16 == InitP16 /\ [][NextP16]_vars

\* The definition of the optimum, independent of all_pairs and of the search:
\* distances by breadth-first search, every order of opening tried.
RECURSIVE P16Hops(_, _, _, _)
P16Hops(valves, frontier, b, d) ==
    IF b \in frontier THEN d
    ELSE P16Hops(valves,
                 frontier \cup UNION {{valves[i + 1].neighbors[x] :
                                          x \in 1..Len(valves[i + 1].neighbors)} :
                                      i \in frontier},
                 b, d + 1)

RECURSIVE P16BestFrom(_, _, _, _, _)
P16BestFrom(valves, pos, avail, t, i) ==
    IF i = Len(valves) THEN 0
    ELSE LET d == P16Hops(valves, {pos}, i, 0) IN
         Max(P16BestFrom(valves, pos, avail, t, i + 1),
             IF i \in avail /\ d + 1 <= t
             THEN valves[i + 1].flow * (t - d - 1)
                  + P16BestFrom(valves, i, avail \ {i}, t - d - 1, 0)
             ELSE 0)

P16Best(input, subset, t_max) ==
    P16BestFrom(input[2], input[1],
                {i \in P16Indices(Len(input[2])) : Bit(subset, i) # 0}, t_max, 0)

\* C8: on a connected valve graph the first component of what max_for_subset
\* returns is the maximum pressure released over all orders of opening
\* distinct valves of the subset within t_max minutes; the pruning by
\* upper_bound never loses the optimum.
C8_MaxForSubsetOptimal ==
    p16.pc = "done" => p16.result[1] = P16Best(p16.input, p16.subset, p16.t_max)

\* the number of orders (prefixes included) whose valves are all opened with
\* time to spare: what a search without pruning would consider
RECURSIVE P16Orders(_, _, _, _, _)
P16Orders(valves, pos, avail, t, i) ==
    IF i = Len(valves) THEN 1
    ELSE LET d == P16Hops(valves, {pos}, i, 0) IN
         P16Orders(valves, pos, avail, t, i + 1)
         + (IF i \in avail /\ d + 1 < t
            THEN P16Orders(valves, i, avail \ {i}, t - d - 1, 0)
            ELSE 0)

\* C8 witness: the search has returned a positive optimum after pruning, i.e.
\* after considering fewer states than there are orders
C8_Witness ==
    /\ p16.pc = "done"
    /\ p16.result[1] > 0
    /\ p16.result[1] = P16Best(p16.input, p16.subset, p16.t_max)
    /\ p16.result[2] < P16Orders(p16.input[2], p16.input[1],
                                 {i \in P16Indices(Len(p16.input[2])) :
                                     Bit(p16.subset, i) # 0},
                                 p16.t_max, 0)

\* ---- solve2: parallel map over the masks, max of the results ----
P16SMaxValves == 2

\* the threads of the pool
P16Workers == {"w1", "w2"}

P16SInputs == P16InputsOf(P16SMaxValves, {0})

P16NoEval == [us_score |-> 0, us_st |-> 0, them_score |-> 0, them_st |-> 0]

InitP16S ==
    /\ \E input \in P16SInputs :
           p16s = [pc |-> "start", input |-> input,
                   n_max |-> 0, apsp |-> <<>>,
                   lo |-> 0, hi |-> 0,
                   states |-> 0,
                   w |-> [x \in P16Workers |-> [pc |-> "idle", ev |-> P16NoEval]],
                   acc |-> [x \in P16Workers |-> None],
                   result |-> None]
    /\ p25 = Idle /\ p21 = Idle /\ p21l = Idle /\ p17 = Idle /\ p24 = Idle
    /\ p15 = Idle /\ p16 = Idle
    /\ p11 = Idle /\ p19 = Idle /\ p14 = Idle /\ p22 = Idle /\ p20 = Idle

\* solve2 up to the parallel iterator: the ensure!, n_max, apsp, states
P16SSetup ==
    /\ p16s.pc = "start"
    /\ LET n == Len(relevant_valves(p16s.input[2])) IN
       IF n < TOO_MANY_VALVES
       THEN p16s' = [p16s EXCEPT !.pc = "map",
                                 !.n_max = Pow(2, n) - 1,
                                 !.apsp = all_pairs(p16s.input[2]),
                                 !.lo = 0,
                                 !.hi = Pow(2, n) - 1,
                                 !.states = 0]
       ELSE p16s' = [p16s EXCEPT !.pc = "done", !.result = Panic]
    /\ UNCHANGED <<p25, p21, p21l, p17, p24, p15, p16, p11, p19, p14, p22, p20>>

\* a thread takes a mask from either end of the masks that are left and runs
\* the closure up to its first fetch_add
P16STake(x) ==
    /\ p16s.pc = "map"
    /\ p16s.w[x].pc = "idle"
    /\ p16s.lo < p16s.hi
    /\ \E front \in BOOLEAN :
         LET mask == IF front THEN p16s.lo ELSE p16s.hi - 1 IN
         p16s' = [p16s EXCEPT !.lo = IF front THEN @ + 1 ELSE @,
                              !.hi = IF front THEN @ ELSE @ - 1,
                              !.w[x] = [pc |-> "add_us",
                                        ev |-> mask_eval(p16s.input, p16s.apsp, mask)]]
    /\ UNCHANGED <<p25, p21, p21l, p17, p24, p15, p16, p11, p19, p14, p22, p20>>

\* states.fetch_add(us_st, Relaxed)
P16SAddUs(x) ==
    /\ p16s.pc = "map"
    /\ p16s.w[x].pc = "add_us"
    /\ p16s' = [p16s EXCEPT !.states = @ + p16s.w[x].ev.us_st,
                            !.w[x].pc = "add_them"]
    /\ UNCHANGED <<p25, p21, p21l, p17, p24, p15, p16, p11, p19, p14, p22, p20>>

\* states.fetch_add(them_st, Relaxed); us_score + them_score goes into the
\* maximum of the results of this thread
P16SAddThem(x) ==
    /\ p16s.pc = "map"
    /\ p16s.w[x].pc = "add_them"
    /\ p16s' = [p16s EXCEPT !.states = @ + p16s.w[x].ev.them_st,
                            !.acc[x] = reduce_max(@, Some(p16s.w[x].ev.us_score
                                                          + p16s.w[x].ev.them_score)),
                            !.w[x] = [pc |-> "idle", ev |-> P16NoEval]]
    /\ UNCHANGED <<p25, p21, p21l, p17, p24, p15, p16, p11, p19, p14, p22, p20>>

\* .max().unwrap(): the maxima of the threads are joined once every mask is done
P16SJoin ==
    /\ p16s.pc = "map"
    /\ p16s.lo = p16s.hi
    /\ \A x \in P16Workers : p16s.w[x].pc = "idle"
    /\ \E x, y \in P16Workers :
         /\ x # y
         /\ LET res == reduce_max(p16s.acc[x], p16s.acc[y]) IN
            p16s' = [p16s EXCEPT !.pc = "done",
                                 !.result = IF res.k = "none" THEN Panic ELSE res]
    /\ UNCHANGED <<p25, p21, p21l, p17, p24, p15, p16, p11, p19, p14, p22, p20>>

NextP16S ==
    \/ P16SSetup
    \/ \E x \in P16Workers : P16STake(x)
    \/ \E x \in P16Workers : P16SAddUs(x)
    \/ \E x \in P16Workers : P16SAddThem(x)
    \/ P16SJoin

SpecP16S == InitP16S /\ [][NextP16S]_vars

\* the maximum of us_score + them_score over the masks 0..n
RECURSIVE P16MaxOverMasks(_, _, _)
P16MaxOverMasks(input, apsp, n) ==
    LET ev == mask_eval(input, apsp, n)
        v  == ev.us_score + ev.them_score
    IN  IF n = 0 THEN v ELSE Max(v, P16MaxOverMasks(input, apsp, n - 1))

\* C9: whatever the order in which the threads take the masks and perform
\* their fetch_add operations, the value solve2 returns is the maximum of
\* us_score + them_score over all masks; the states counter has no part in it.
C9_Solve2Deterministic ==
    (p16s.pc = "done" /\ p16s.result.k = "some")
        => p16s.result.v = P16MaxOverMasks(p16s.input, p16s.apsp, p16s.n_max)

\* C9 witness: solve2 has returned after both threads evaluated masks with
\* different results and added to the counter
C9_Witness ==
    /\ p16s.pc = "done"
    /\ p16s.result.k = "some"
    /\ p16s.n_max >= 3
    /\ p16s.states > 0
    /\ \E x, y \in P16Workers :
         /\ p16s.acc[x].k = "some"
         /\ p16s.acc[y].k = "some"
         /\ p16s.acc[x].v < p16s.acc[y].v

(***************************************************************************)
(* p11: monkeys -- worry values kept modulo the LCM of the divisors        *)
(***************************************************************************)
P11MaxItem == 3

P11MaxConst == 3

P11MaxRounds == 2

Const(n) == [kind |-> "const", n |-> n]

Old == [kind |-> "old", n |-> 0]

Op(kind, a, b) == [kind |-> kind, a |-> a, b |-> b]

Monkey(items, operation, divisor, branches) ==
    [items |-> items, operation |-> operation, divisor |-> divisor, branches |-> branches]

evaluate(op, worry) == IF op.kind = "old" THEN worry ELSE op.n

apply(op, worry) ==
    IF op.kind = "mul" THEN evaluate(op.a, worry) * evaluate(op.b, worry)
    ELSE evaluate(op.a, worry) + evaluate(op.b, worry)

RECURSIVE gcd(_, _)
gcd(a, b) == IF b = 0 THEN a ELSE gcd(b, a % b)

RECURSIVE lcm_loop(_, _, _)
lcm_loop(xs, i, out) ==
    IF i > Len(xs) THEN out
    ELSE lcm_loop(xs, i + 1, (xs[i] * out) \div gcd(xs[i], out))

lcm(xs) == lcm_loop(xs, 1, xs[1])

RECURSIVE divisors(_, _)
divisors(input, i) ==
    IF i > Len(input) THEN <<>> ELSE <<input[i].divisor>> \o divisors(input, i + 1)

RECURSIVE start_items(_, _)
start_items(input, i) ==
    IF i > Len(input) THEN <<>> ELSE <<input[i].items>> \o start_items(input, i + 1)

RECURSIVE zeros(_)
zeros(n) == IF n = 0 THEN <<>> ELSE <<0>> \o zeros(n - 1)

\* Simulation::new; thrown is the list of the targets of the last turn
Simulation(input, decay) ==
    [k |-> lcm(divisors(input, 1)),
     items |-> start_items(input, 1),
     inspected |-> zeros(Len(input)),
     decay |-> decay,
     thrown |-> <<>>]

\* the worry value the code stores: reduced modulo k, then decayed
new_worry(monkey, item, k, decay) ==
    LET reduced == apply(monkey.operation, item) % k
    IN  IF decay THEN reduced \div 3 ELSE reduced

\* the worry value without the reduction
new_worry_plain(monkey, item, k, decay) ==
    LET plain == apply(monkey.operation, item)
    IN  IF decay THEN plain \div 3 ELSE plain

\* the while loop of step_turn; indices count from 0 as in the code
RECURSIVE turn_loop(_, _, _)
turn_loop(sim, input, index) ==
    IF sim.items[index + 1] = <<>> THEN sim
    ELSE LET monkey == input[index + 1]
             item   == new_worry(monkey, Head(sim.items[index + 1]), sim.k, sim.decay)
             target == IF item % monkey.divisor = 0 THEN monkey.branches[2]
                       ELSE monkey.branches[1]
             popped == [sim.items EXCEPT ![index + 1] = Tail(@)]
         IN  turn_loop([sim EXCEPT !.inspected[index + 1] = @ + 1,
                                   !.items = [popped EXCEPT ![target + 1] = Append(@, item)],
                                   !.thrown = Append(@, target)],
                       input, index)

step_turn(sim, input, index) == turn_loop([sim EXCEPT !.thrown = <<>>], input, index)

\* the same turn on worry values that are never reduced
RECURSIVE P11PlainLoop(_, _, _)
P11PlainLoop(sim, input, index) ==
    IF sim.items[index + 1] = <<>> THEN sim
    ELSE LET monkey == input[index + 1]
             item   == new_worry_plain(monkey, Head(sim.items[index + 1]), sim.k, sim.decay)
             target == IF item % monkey.divisor = 0 THEN monkey.branches[2]
                       ELSE monkey.branches[1]
             popped == [sim.items EXCEPT ![index + 1] = Tail(@)]
         IN  P11PlainLoop([sim EXCEPT !.inspected[index + 1] = @ + 1,
                                      !.items = [popped EXCEPT ![target + 1] = Append(@, item)],
                                      !.thrown = Append(@, target)],
                          input, index)

P11PlainTurn(sim, input, index) == P11PlainLoop([sim EXCEPT !.thrown = <<>>], input, index)

\* The inputs: three monkeys, each throwing to the two others; the first one
\* holds the items at the start
P11Operands == {Old, Const(1), Const(P11MaxConst)}

P11Operations ==
    {Op("mul", Old, b) : b \in P11Operands \ {Const(1)}}
        \cup {Op("add", Old, b) : b \in P11Operands \ {Old}}

P11ItemLists == {<<>>} \cup {<<x>> : x \in 1..P11MaxItem}

P11Divisors == {2, 3}

P11Monkeys(itemlists, operations, others) ==
    {Monkey(items, operation, divisor, branches) :
        items \in itemlists, operation \in operations, divisor \in P11Divisors,
        branches \in {<<others[1], others[2]>>, <<others[2], others[1]>>}}

\* only the first monkey squares: the unreduced values have to stay small
P11Inputs ==
    {<<a, b, c>> :
        a \in P11Monkeys(P11ItemLists \ {<<>>}, P11Operations, <<1, 2>>),
        b \in P11Monkeys({<<>>}, P11Operations \ {Op("mul", Old, Old)}, <<0, 2>>),
        c \in P11Monkeys({<<>>}, P11Operations \ {Op("mul", Old, Old)}, <<0, 1>>)}

InitP11 ==
    /\ \E input \in P11Inputs, decay \in BOOLEAN :
        p11 = [pc |-> "round", input |-> input, round |-> 0, m |-> 0,
               sim |-> Simulation(input, decay),
               plain |-> Simulation(input, decay)]
    /\ p25 = Idle /\ p21 = Idle /\ p21l = Idle /\ p17 = Idle /\ p24 = Idle
    /\ p15 = Idle /\ p16 = Idle /\ p16s = Idle
    /\ p19 = Idle /\ p14 = Idle /\ p22 = Idle /\ p20 = Idle

\* step_round: sim.step_turn(m) for the next m
P11Turn ==
    /\ p11.pc = "round"
    /\ p11.m < Len(p11.input)
    /\ p11' = [p11 EXCEPT !.sim = step_turn(p11.sim, p11.input, p11.m),
                          !.plain = P11PlainTurn(p11.plain, p11.input, p11.m),
                          !.m = p11.m + 1]
    /\ UNCHANGED <<p25, p21, p21l, p17, p24, p15, p16, p16s, p19, p14, p22, p20>>

\* the end of step_round and the loop of the rounds in solve1 / solve2
P11RoundEnd ==
    /\ p11.pc = "round"
    /\ p11.m = Len(p11.input)
    /\ p11' = [p11 EXCEPT !.round = p11.round + 1,
                          !.m = 0,
                          !.pc = IF p11.round + 1 = P11MaxRounds THEN "done" ELSE "round"]
    /\ UNCHANGED <<p25, p21, p21l, p17, p24, p15, p16, p16s, p19, p14, p22, p20>>

NextP11 == P11Turn \/ P11RoundEnd

SpecP11 == InitP11 /\ [][NextP11]_vars

\* C11: keeping the worry values modulo k changes neither the throw target of
\* any inspected item nor the inspected counts, with decay disabled and with
\* decay enabled.
C11_ModuloKeepsSimulation ==
    /\ p11.sim.thrown = p11.plain.thrown
    /\ p11.sim.inspected = p11.plain.inspected

\* C11 witness: an item whose unreduced worry value exceeds k was stored
\* reduced and thrown to the same monkey in both simulations
C11_Witness ==
    /\ p11.pc = "round"
    /\ ~p11.sim.decay
    /\ p11.sim.thrown # <<>>
    /\ p11.sim.thrown = p11.plain.thrown
    /\ p11.sim.items # p11.plain.items

\* with decay disabled the reduction is exact
P11NoDecayExact ==
    ~p11.sim.decay =>
        /\ p11.sim.thrown = p11.plain.thrown
        /\ p11.sim.inspected = p11.plain.inspected

(***************************************************************************)
(* p19: robots -- memoised search over the build schedules of a blueprint  *)
(***************************************************************************)
P19MaxCost == 2

P19MaxT == 7

\* The 64-bit key of State is kept as two words: lo holds the bits 0..23
\* (ore, clay, obsidian), hi the bits 24.. (time, ore / clay / obsidian robots)
\* and the constants of State are in units of the hi word
WORD == 16777216

TIMESTEP == 16777216

ORE_BOT == 65536

CLAY_BOT == 256

OBS_BOT == 1

Blueprint(b_cost, c_cost, o_cost, g_cost) ==
    [b_cost |-> b_cost, c_cost |-> c_cost, o_cost |-> o_cost, g_cost |-> g_cost]

Key(hi, lo) == [hi |-> hi, lo |-> lo]

\* key + hi * 2^24 + lo in 64-bit arithmetic: carries and borrows run through
\* the fields
key_add(key, hi, lo) ==
    LET sum == key.lo + lo
        carry == IF sum >= 0 THEN sum \div WORD ELSE -((WORD - 1 - sum) \div WORD)
    IN  Key(key.hi + hi + carry, sum - carry * WORD)

\* the fields of a key
ore_of(key) == (key.lo \div 65536) % 256

clay_of(key) == (key.lo \div 256) % 256

obs_of(key) == key.lo % 256

ore_bots_of(key) == (key.hi \div ORE_BOT) % 256

clay_bots_of(key) == (key.hi \div CLAY_BOT) % 256

obs_bots_of(key) == (key.hi \div OBS_BOT) % 256

\* State::step: k0 + ((k0 & BOTS_MASK) >> 24) - TIMESTEP
state_step(key) == key_add(key, -TIMESTEP, key.hi % WORD)

has_time(key) == (key.hi \div WORD) % 256 > 1

remaining(key) == (key.hi \div WORD) % 256

\* Costs::new; the max_* fields are kept shifted right by 24 as they are
\* compared with the hi word
Costs(bp) ==
    [b_ore |-> bp.b_cost * 65536,
     c_ore |-> bp.c_cost * 65536,
     o_ore |-> bp.o_cost[1] * 65536,
     g_ore |-> bp.g_cost[1] * 65536,
     o_clay |-> bp.o_cost[2] * 256,
     g_obs |-> bp.g_cost[2],
     max_ore |-> Max(Max(Max(bp.b_cost, bp.c_cost), bp.o_cost[1]), bp.g_cost[1]) * ORE_BOT,
     max_clay |-> bp.o_cost[2] * CLAY_BOT,
     max_obs |-> bp.g_cost[2] * OBS_BOT]

can_ore(costs, s) ==
    /\ ore_of(s) * 65536 >= costs.b_ore
    /\ ore_bots_of(s) * ORE_BOT < costs.max_ore

can_clay(costs, s) ==
    /\ ore_of(s) * 65536 >= costs.c_ore
    /\ clay_bots_of(s) * CLAY_BOT < costs.max_clay

can_obs(costs, s) ==
    /\ ore_of(s) * 65536 >= costs.o_ore
    /\ clay_of(s) * 256 >= costs.o_clay
    /\ obs_bots_of(s) * OBS_BOT < costs.max_obs

can_geo(costs, s) ==
    /\ ore_of(s) * 65536 >= costs.g_ore
    /\ obs_of(s) >= costs.g_obs

\* the states f recurses into
ore_child(costs, x) == key_add(state_step(x), ORE_BOT, -costs.b_ore)

clay_child(costs, x) == key_add(state_step(x), CLAY_BOT, -costs.c_ore)

obs_child(costs, x) == key_add(state_step(x), OBS_BOT, -costs.o_ore - costs.o_clay)

geo_child(costs, x) == key_add(state_step(x), 0, -costs.g_ore - costs.g_obs)

\* f; the store only saves the recomputation of a value
RECURSIVE f(_, _)
f(costs, x) ==
    IF ~has_time(x) THEN 0
    ELSE LET b1 == IF can_ore(costs, x) THEN f(costs, ore_child(costs, x)) ELSE 0
             b2 == IF can_clay(costs, x) THEN Max(b1, f(costs, clay_child(costs, x))) ELSE b1
             b3 == IF can_obs(costs, x) THEN Max(b2, f(costs, obs_child(costs, x))) ELSE b2
             b4 == IF can_geo(costs, x)
                   THEN Max(b3, f(costs, geo_child(costs, x)) + (remaining(x) - 1))
                   ELSE b3
         IN  Max(b4, f(costs, state_step(x)))

\* the state max_geodes starts from
start_key(t_max) == Key(t_max * TIMESTEP + ORE_BOT, 0)

max_geodes(bp, t_max) == f(Costs(bp), start_key(t_max))

\* The build schedules themselves, on unbounded counts
Stock(ore_bots, clay_bots, obs_bots, ore, clay, obs) ==
    [ore_bots |-> ore_bots, clay_bots |-> clay_bots, obs_bots |-> obs_bots,
     ore |-> ore, clay |-> clay, obs |-> obs]

P19Collect(s) ==
    [s EXCEPT !.ore = @ + s.ore_bots, !.clay = @ + s.clay_bots, !.obs = @ + s.obs_bots]

P19StockOf(key) ==
    Stock(ore_bots_of(key), clay_bots_of(key), obs_bots_of(key),
          ore_of(key), clay_of(key), obs_of(key))

RECURSIVE P19Best(_, _, _)
P19Best(bp, t, s) ==
    IF t <= 0 THEN 0
    ELSE LET n  == P19Collect(s)
             w  == P19Best(bp, t - 1, n)
             b1 == IF s.ore >= bp.b_cost
                   THEN Max(w, P19Best(bp, t - 1,
                               [n EXCEPT !.ore = @ - bp.b_cost, !.ore_bots = @ + 1]))
                   ELSE w
             b2 == IF s.ore >= bp.c_cost
                   THEN Max(b1, P19Best(bp, t - 1,
                                [n EXCEPT !.ore = @ - bp.c_cost, !.clay_bots = @ + 1]))
                   ELSE b1
             b3 == IF s.ore >= bp.o_cost[1] /\ s.clay >= bp.o_cost[2]
                   THEN Max(b2, P19Best(bp, t - 1,
                                [n EXCEPT !.ore = @ - bp.o_cost[1],
                                          !.clay = @ - bp.o_cost[2],
                                          !.obs_bots = @ + 1]))
                   ELSE b2
         IN  IF s.ore >= bp.g_cost[1] /\ s.obs >= bp.g_cost[2]
             THEN Max(b3, (t - 1) + P19Best(bp, t - 1,
                                     [n EXCEPT !.ore = @ - bp.g_cost[1],
                                               !.obs = @ - bp.g_cost[2]]))
             ELSE b3

\* The inputs: cheap blueprints on short schedules, and one blueprint whose
\* ore robots are cheap while everything else is dear, on a long schedule
P19Cheap ==
    {Blueprint(b, c, <<oo, oc>>, <<go, gb>>) :
        b \in 1..P19MaxCost, c \in 1..P19MaxCost, oo \in 1..P19MaxCost,
        oc \in 1..P19MaxCost, go \in 1..P19MaxCost, gb \in 1..P19MaxCost}

P19Hoarder == Blueprint(1, 255, <<255, 255>>, <<1, 1>>)

P19Inputs ==
    {<<bp, t>> : bp \in P19Cheap, t \in 0..P19MaxT} \cup {<<P19Hoarder, 28>>}

InitP19 ==
    /\ \E input \in P19Inputs :
        p19 = [pc |-> "f", bp |-> input[1], t_max |-> input[2],
               x |-> start_key(input[2]), geodes |-> 0,
               stock |-> Stock(1, 0, 0, 0, 0, 0),
               result |-> 0]
    /\ p25 = Idle /\ p21 = Idle /\ p21l = Idle /\ p17 = Idle /\ p24 = Idle
    /\ p15 = Idle /\ p16 = Idle /\ p16s = Idle
    /\ p11 = Idle /\ p14 = Idle /\ p22 = Idle /\ p20 = Idle

\* One level of f: the search recurses into the state after the build.  x is
\* the argument, geodes what the path has scored, stock the counts of the
\* schedule that makes the same builds.
P19Descend(child, gain, built) ==
    /\ p19.pc = "f"
    /\ has_time(p19.x)
    /\ p19' = [p19 EXCEPT !.x = child, !.geodes = @ + gain, !.stock = built]
    /\ UNCHANGED <<p25, p21, p21l, p17, p24, p15, p16, p16s, p11, p14, p22, p20>>

P19BuildOre ==
    /\ can_ore(Costs(p19.bp), p19.x)
    /\ P19Descend(ore_child(Costs(p19.bp), p19.x), 0,
                  [P19Collect(p19.stock) EXCEPT !.ore = @ - p19.bp.b_cost,
                                                !.ore_bots = @ + 1])

P19BuildClay ==
    /\ can_clay(Costs(p19.bp), p19.x)
    /\ P19Descend(clay_child(Costs(p19.bp), p19.x), 0,
                  [P19Collect(p19.stock) EXCEPT !.ore = @ - p19.bp.c_cost,
                                                !.clay_bots = @ + 1])

P19BuildObs ==
    /\ can_obs(Costs(p19.bp), p19.x)
    /\ P19Descend(obs_child(Costs(p19.bp), p19.x), 0,
                  [P19Collect(p19.stock) EXCEPT !.ore = @ - p19.bp.o_cost[1],
                                                !.clay = @ - p19.bp.o_cost[2],
                                                !.obs_bots = @ + 1])

P19BuildGeo ==
    /\ can_geo(Costs(p19.bp), p19.x)
    /\ P19Descend(geo_child(Costs(p19.bp), p19.x), remaining(p19.x) - 1,
                  [P19Collect(p19.stock) EXCEPT !.ore = @ - p19.bp.g_cost[1],
                                                !.obs = @ - p19.bp.g_cost[2]])

P19Wait == P19Descend(state_step(p19.x), 0, P19Collect(p19.stock))

\* the whole call on a short schedule
P19MaxGeodes ==
    /\ p19.pc = "f"
    /\ p19.x = start_key(p19.t_max)
    /\ p19.t_max <= P19MaxT
    /\ p19' = [p19 EXCEPT !.pc = "done", !.result = max_geodes(p19.bp, p19.t_max)]
    /\ UNCHANGED <<p25, p21, p21l, p17, p24, p15, p16, p16s, p11, p14, p22, p20>>

NextP19 ==
    \/ P19BuildOre \/ P19BuildClay \/ P19BuildObs \/ P19BuildGeo \/ P19Wait
    \/ P19MaxGeodes

SpecP19 == InitP19 /\ [][NextP19]_vars

\* C12: max_geodes returns the maximum number of geodes over all build
\* schedules of the blueprint: what it returns on a short schedule is that
\* maximum, and every state the search scores is the state of the build
\* schedule that made the same builds.
C12_MaxGeodesIsMaximum ==
    /\ p19.pc = "done" =>
          p19.result = P19Best(p19.bp, p19.t_max, Stock(1, 0, 0, 0, 0, 0))
    /\ p19.pc = "f" => P19StockOf(p19.x) = p19.stock

\* C12 witness: a geode robot was built on the path the search is on
C12_Witness ==
    /\ p19.pc = "f"
    /\ p19.geodes > 0
    /\ P19StockOf(p19.x) = p19.stock

\* on the short schedules of the cheap blueprints the result is the maximum
P19ShortExact ==
    p19.pc = "done" =>
        p19.result = P19Best(p19.bp, p19.t_max, Stock(1, 0, 0, 0, 0, 0))

\* a path that has scored although its schedule never had obsidian
P19Phantom ==
    /\ p19.pc = "f"
    /\ p19.geodes > 0
    /\ p19.stock.obs_bots = 0

(***************************************************************************)
(* p14: falling sand                                                       *)
(***************************************************************************)
P14MaxY == 2

P14MaxSpread == 1

P14MaxPaths == 2

SOURCE_X == 500

WIDTH_MARGIN == 200

HEIGHT_MARGIN == 2

\* crate::grid::Grid, as the cells that are not Empty
Grid14(width, height, walls, sand) ==
    [width |-> width, height |-> height, walls |-> walls, sand |-> sand]

grid_in(g, pos) == pos[1] >= 0 /\ pos[1] < g.width /\ pos[2] >= 0 /\ pos[2] < g.height

grid_cell(g, pos) ==
    IF pos \in g.walls THEN "Wall" ELSE IF pos \in g.sand THEN "Sand" ELSE "Empty"

\* Grid::try_get: None outside of the grid
grid_try_get(g, pos) == IF grid_in(g, pos) THEN Some(grid_cell(g, pos)) ELSE None

\* the cells load_input sets for one step of a path
segment(pos, next) ==
    IF pos[1] < next[1] THEN {<<x, pos[2]>> : x \in pos[1]..next[1]}
    ELSE IF pos[1] > next[1] THEN {<<x, pos[2]>> : x \in next[1]..pos[1]}
    ELSE IF pos[2] < next[2] THEN {<<pos[1], y>> : y \in pos[2]..next[2]}
    ELSE IF pos[2] > next[2] THEN {<<pos[1], y>> : y \in next[2]..pos[2]}
    ELSE {}

RECURSIVE path_cells(_, _)
path_cells(p, i) ==
    IF i >= Len(p) THEN {} ELSE segment(p[i], p[i + 1]) \cup path_cells(p, i + 1)

SetMax(S) == CHOOSE x \in S : \A y \in S : y <= x

load_cells(paths) ==
    Grid14(SetMax({p[i][1] : p \in paths, i \in 1..2}) + WIDTH_MARGIN,
           SetMax({p[i][2] : p \in paths, i \in 1..2}) + HEIGHT_MARGIN,
           UNION {path_cells(p, 1) : p \in paths},
           {})

Ok(pos) == [k |-> "ok", pos |-> pos]

Err(pos) == [k |-> "err", pos |-> pos]

Unreachable(pos) == [k |-> "panic", pos |-> pos]

\* landing_point from pos on; pos.0 - 1 below zero panics or wraps to a cell
\* outside of the grid, which is the unreachable!() arm
RECURSIVE landing_from(_, _)
landing_from(state, pos) ==
    IF grid_try_get(state, pos).k = "none" THEN Unreachable(pos)
    ELSE IF grid_try_get(state, <<pos[1], pos[2] + 1>>).k = "none" THEN Err(pos)
    ELSE IF grid_try_get(state, <<pos[1], pos[2] + 1>>).v = "Empty"
         THEN landing_from(state, <<pos[1], pos[2] + 1>>)
    ELSE IF grid_try_get(state, <<pos[1] - 1, pos[2] + 1>>).k = "none" THEN Unreachable(pos)
    ELSE IF grid_try_get(state, <<pos[1] - 1, pos[2] + 1>>).v = "Empty"
         THEN landing_from(state, <<pos[1] - 1, pos[2] + 1>>)
    ELSE IF grid_try_get(state, <<pos[1] + 1, pos[2] + 1>>).k = "none" THEN Unreachable(pos)
    ELSE IF grid_try_get(state, <<pos[1] + 1, pos[2] + 1>>).v = "Empty"
         THEN landing_from(state, <<pos[1] + 1, pos[2] + 1>>)
    ELSE Ok(pos)

landing_point(state) == landing_from(state, <<SOURCE_X, 0>>)

\* The inputs: up to P14MaxPaths straight walls below and beside the source
P14Points == {<<x, y>> : x \in (SOURCE_X - P14MaxSpread)..(SOURCE_X + P14MaxSpread),
                          y \in 1..P14MaxY}

P14Paths == {p \in P14Points \X P14Points : p[1][1] = p[2][1] \/ p[1][2] = p[2][2]}

RECURSIVE P14PathSets(_)
P14PathSets(n) ==
    IF n = 0 THEN {{}}
    ELSE LET fewer == P14PathSets(n - 1)
         IN  fewer \cup {ps \cup {p} : ps \in fewer, p \in P14Paths}

P14Inputs == P14PathSets(P14MaxPaths) \ {{}}

InitP14 ==
    /\ \E paths \in P14Inputs, solver \in {"solve1", "solve2"} :
        p14 = [pc |-> "loop", solver |-> solver, state |-> load_cells(paths),
               landed |-> Err(<<SOURCE_X, 0>>), drops |-> 0]
    /\ p25 = Idle /\ p21 = Idle /\ p21l = Idle /\ p17 = Idle /\ p24 = Idle
    /\ p15 = Idle /\ p16 = Idle /\ p16s = Idle
    /\ p11 = Idle /\ p19 = Idle /\ p22 = Idle /\ p20 = Idle

\* get_mut(pos), assert_eq!(*c, Cell::Empty), *c = Cell::Sand
P14Settle(lp) ==
    IF lp.k = "panic" \/ ~grid_in(p14.state, lp.pos)
       \/ grid_cell(p14.state, lp.pos) # "Empty"
    THEN p14' = [p14 EXCEPT !.pc = "panic", !.landed = lp]
    ELSE p14' = [p14 EXCEPT !.state.sand = @ \cup {lp.pos}, !.landed = lp,
                            !.drops = @ + 1]

\* solve1: while let Ok(pos) = landing_point(&state) { .. }
P14Solve1 ==
    /\ p14.pc = "loop"
    /\ p14.solver = "solve1"
    /\ LET lp == landing_point(p14.state) IN
       IF lp.k = "err" THEN p14' = [p14 EXCEPT !.pc = "done", !.landed = lp]
       ELSE P14Settle(lp)
    /\ UNCHANGED <<p25, p21, p21l, p17, p24, p15, p16, p16s, p11, p19, p22, p20>>

\* solve2: while *state.get((500, 0)) == Cell::Empty { match landing_point(..) }
P14Solve2 ==
    /\ p14.pc = "loop"
    /\ p14.solver = "solve2"
    /\ IF ~grid_in(p14.state, <<SOURCE_X, 0>>)
       THEN p14' = [p14 EXCEPT !.pc = "panic"]
       ELSE IF grid_cell(p14.state, <<SOURCE_X, 0>>) # "Empty"
       THEN p14' = [p14 EXCEPT !.pc = "done"]
       ELSE P14Settle(landing_point(p14.state))
    /\ UNCHANGED <<p25, p21, p21l, p17, p24, p15, p16, p16s, p11, p19, p22, p20>>

NextP14 == P14Solve1 \/ P14Solve2

SpecP14 == InitP14 /\ [][NextP14]_vars

P14Below(pos) == {<<pos[1] + d, pos[2] + 1>> : d \in {-1, 0, 1}}

\* C13: in every grid state of solve1 and of solve2 landing_point returns
\* Ok(p) with p an Empty cell whose three cells below are not empty, or
\* Err(p) with p in the bottom row; no unreachable!() arm is reached and no
\* assertion on the returned cell fails, also when the source is blocked.
C13_LandingPointSafe ==
    /\ p14.pc # "panic"
    /\ (p14.pc # "idle" /\ p14.drops > 0 /\ p14.landed.k = "ok") =>
          \A q \in P14Below(p14.landed.pos) : grid_cell(p14.state, q) # "Empty"
    /\ (p14.pc # "idle" /\ p14.landed.k = "err") =>
          p14.landed.pos[2] = p14.state.height - 1 \/ p14.drops = 0

\* C13 witness: solve2 has filled the cave up to the source
C13_Witness ==
    /\ p14.pc = "done"
    /\ p14.solver = "solve2"
    /\ <<SOURCE_X, 0>> \in p14.state.sand
    /\ p14.drops > 1

(***************************************************************************)
(* p20: ShiftList -- a circular doubly linked list of raw pointers         *)
(***************************************************************************)
P20MaxN == 4

P20MaxDelta == 5

P20MaxValue == 2

\* A pointer to a node is the index of the node in `nodes`; the fields prev
\* and next of node i are prev[i + 1] and next[i + 1].
set_prev(l, node, to) == [l EXCEPT !.prev[node + 1] = to]

set_next(l, node, to) == [l EXCEPT !.next[node + 1] = to]

\* the loop of ShiftList::new over the inner nodes
RECURSIVE new_inner(_, _, _)
new_inner(l, i, n) ==
    IF i >= n - 1 THEN l
    ELSE new_inner(set_next(set_prev(l, i, i - 1), i, i + 1), i + 1, n)

RECURSIVE nulls(_)
nulls(n) == IF n = 0 THEN <<>> ELSE <<-1>> \o nulls(n - 1)

\* ShiftList::new; a null pointer is -1
ShiftList_new(xs) ==
    LET n  == Len(xs)
        l0 == [value |-> xs, prev |-> nulls(n), next |-> nulls(n), len |-> n]
        l1 == set_prev(l0, 0, n - 1)
        l2 == set_next(l1, 0, 1)
        l3 == set_prev(l2, n - 1, n - 2)
        l4 == set_next(l3, n - 1, 0)
    IN  new_inner(l4, 1, n)

\* an unlinking that forgets the back pointer of the successor
unlink_half(l, node) == set_next(l, l.prev[node + 1], l.next[node + 1])

\* (*prev).next = next; (*next).prev = prev
unlink(l, node) ==
    LET prev == l.prev[node + 1]
        next == l.next[node + 1]
    IN  set_prev(set_next(l, prev, next), next, prev)

RECURSIVE advance(_, _, _, _)
advance(l, p, forwards, count) ==
    IF count <= 0 THEN p
    ELSE advance(l, IF forwards THEN l.next[p + 1] ELSE l.prev[p + 1], forwards, count - 1)

\* the re-insertion of node between prev and next
relink(l, node, prev, next) ==
    set_prev(set_next(set_prev(set_next(l, prev, node), next, node), node, next), node, prev)

shift_node(l, idx, delta) ==
    IF delta > 0
    THEN LET removed == unlink(l, idx)
             prev    == advance(removed, l.prev[idx + 1], TRUE, delta)
         IN  relink(removed, idx, prev, removed.next[prev + 1])
    ELSE IF delta < 0
    THEN LET removed == unlink(l, idx)
             next    == advance(removed, l.next[idx + 1], FALSE, -delta)
         IN  relink(removed, idx, removed.prev[next + 1], next)
    ELSE l

\* the loop of into_vec; the walk is cut off where on a broken chain the code
\* would free a node twice
RECURSIVE unravel(_, _, _, _)
unravel(l, node, first, out) ==
    IF node = first \/ Len(out) > l.len THEN out
    ELSE unravel(l, l.next[node + 1], first, Append(out, l.value[node + 1]))

into_vec(l, first) == unravel(l, l.next[first + 1], first, <<l.value[first + 1]>>)

P20Inputs == UNION {[1..n -> 1..P20MaxValue] : n \in 2..P20MaxN}

InitP20 ==
    /\ \E xs \in P20Inputs :
        p20 = [pc |-> "list", xs |-> xs, list |-> ShiftList_new(xs),
               shifted |-> FALSE, first |-> 0, out |-> <<>>]
    /\ p25 = Idle /\ p21 = Idle /\ p21l = Idle /\ p17 = Idle /\ p24 = Idle
    /\ p15 = Idle /\ p16 = Idle /\ p16s = Idle
    /\ p11 = Idle /\ p19 = Idle /\ p14 = Idle /\ p22 = Idle

P20ShiftNode ==
    /\ p20.pc = "list"
    /\ \E idx \in 0..(p20.list.len - 1), delta \in (-P20MaxDelta)..P20MaxDelta :
        p20' = [p20 EXCEPT !.list = shift_node(p20.list, idx, delta),
                           !.shifted = TRUE]
    /\ UNCHANGED <<p25, p21, p21l, p17, p24, p15, p16, p16s, p11, p19, p14, p22>>

P20IntoVec ==
    /\ p20.pc = "list"
    /\ \E first \in 0..(p20.list.len - 1) :
        p20' = [p20 EXCEPT !.pc = "done", !.first = first,
                           !.out = into_vec(p20.list, first)]
    /\ UNCHANGED <<p25, p21, p21l, p17, p24, p15, p16, p16s, p11, p19, p14, p22>>

NextP20 == P20ShiftNode \/ P20IntoVec

SpecP20 == InitP20 /\ [][NextP20]_vars

\* the nodes met by following next from node until it comes round, as a list
RECURSIVE P20Round(_, _, _, _)
P20Round(l, node, first, seen) ==
    IF Len(seen) > l.len \/ (seen # <<>> /\ node = first) THEN seen
    ELSE P20Round(l, l.next[node + 1], first, Append(seen, node))

P20IsRing(l) ==
    /\ \A x \in 0..(l.len - 1) :
         /\ l.prev[x + 1] \in 0..(l.len - 1)
         /\ l.next[x + 1] \in 0..(l.len - 1)
         /\ l.next[l.prev[x + 1] + 1] = x
         /\ l.prev[l.next[x + 1] + 1] = x
    /\ \A x \in 0..(l.len - 1) :
         LET round == P20Round(l, x, x, <<>>) IN
         /\ Len(round) = l.len
         /\ {round[i] : i \in 1..Len(round)} = 0..(l.len - 1)

\* the number of times v occurs in s
RECURSIVE P20Count(_, _)
P20Count(s, v) ==
    IF s = <<>> THEN 0 ELSE (IF Head(s) = v THEN 1 ELSE 0) + P20Count(Tail(s), v)

\* C15: after ShiftList::new on n >= 2 values and after any shift_node calls
\* prev and next are mutual inverses and following next from any node visits
\* all n nodes exactly once; into_vec(first) returns n values, every original
\* element once, the first of them element first.
C15_RingPreserved ==
    /\ p20.pc # "idle" => P20IsRing(p20.list)
    /\ p20.pc = "done" =>
          /\ Len(p20.out) = Len(p20.xs)
          /\ p20.out[1] = p20.xs[p20.first + 1]
          /\ \A v \in 1..P20MaxValue : P20Count(p20.out, v) = P20Count(p20.xs, v)

\* C15 witness: a list whose order was changed by shifts has been unravelled
C15_Witness ==
    /\ p20.pc = "done"
    /\ p20.shifted
    /\ p20.list.len > 2
    /\ p20.list.next # ShiftList_new(p20.xs).next
    /\ Len(p20.out) = Len(p20.xs)

(***************************************************************************)
(* p22: walking over the net of a cube                                     *)
(***************************************************************************)
P22MaxSide == 2

SetMin(S) == CHOOSE x \in S : \A y \in S : x <= y

signum(a) == IF a > 0 THEN 1 ELSE IF a < 0 THEN -1 ELSE 0

Dir == {"Left", "Right", "Up", "Down"}

flip(dir) ==
    CASE dir = "Left" -> "Right"
      [] dir = "Right" -> "Left"
      [] dir = "Up" -> "Down"
      [] dir = "Down" -> "Up"

turn_left(dir) ==
    CASE dir = "Left" -> "Down"
      [] dir = "Right" -> "Up"
      [] dir = "Up" -> "Left"
      [] dir = "Down" -> "Right"

turn_right(dir) ==
    CASE dir = "Left" -> "Up"
      [] dir = "Right" -> "Down"
      [] dir = "Up" -> "Right"
      [] dir = "Down" -> "Left"

\* crate::grid::Grid<Cell>, as the cells that are set; the inputs of the
\* model hold no Wall
Grid22(width, height, cells) == [width |-> width, height |-> height, cells |-> cells]

grid22_in(g, pos) == pos[1] >= 0 /\ pos[1] < g.width /\ pos[2] >= 0 /\ pos[2] < g.height

\* GridPoint::offset: None outside of the grid
grid22_offset(g, pos, d) ==
    LET q == <<pos[1] + d[1], pos[2] + d[2]>>
    IN  IF grid22_in(g, q) THEN Some(q) ELSE None

\* Cell::is_set of the cell at pos
is_set(g, pos) == pos \in g.cells

\* GridPoint::left, right, up, down
grid22_step(g, pos, dir) ==
    CASE dir = "Left" -> grid22_offset(g, pos, <<-1, 0>>)
      [] dir = "Right" -> grid22_offset(g, pos, <<1, 0>>)
      [] dir = "Up" -> grid22_offset(g, pos, <<0, -1>>)
      [] dir = "Down" -> grid22_offset(g, pos, <<0, 1>>)

Actor(pos, dir) == [pos |-> pos, dir |-> dir]

\* Actor::new: the first set cell of row 0, facing right
Actor_new(g) == Actor(<<SetMin({x \in 0..(g.width - 1) : is_set(g, <<x, 0>>)}), 0>>, "Right")

\* the test of Actor::forward: the cell in front is off the grid or Unset,
\* so the wrap closure is called
forward_wraps(g, pos, dir) ==
    LET c == grid22_step(g, pos, dir)
    IN  IF c.k = "none" THEN TRUE ELSE ~is_set(g, c.v)

\* min_run of CubeMapping::new over the cells xs[i..]; st is <<n, min_run>>
\* after the cell i
RECURSIVE min_run_loop(_, _, _, _)
min_run_loop(xs, i, n, run) ==
    IF i > Len(xs) THEN (IF n > 0 THEN Min(run, n) ELSE run)
    ELSE CHOOSE r \in {min_run_loop(xs, i + 1, st[1], st[2]) :
                          st \in {IF ~xs[i] /\ n > 0 THEN <<0, Min(run, n)>>
                                  ELSE IF xs[i] THEN <<n + 1, run>>
                                  ELSE <<n, run>>}} : TRUE

min_run(xs) == min_run_loop(xs, 1, 0, USIZE_MAX)

row_iter(g, y) == [i \in 1..g.width |-> is_set(g, <<i - 1, y>>)]

col_iter(g, x) == [i \in 1..g.height |-> is_set(g, <<x, i - 1>>)]

side_len(g) ==
    SetMin({min_run(row_iter(g, y)) : y \in 0..(g.height - 1)}
           \cup {min_run(col_iter(g, x)) : x \in 0..(g.width - 1)})

GridCorner(pos, x_pos, y_pos) == [pos |-> pos, x_pos |-> x_pos, y_pos |-> y_pos]

\* follow_x; Panic is the unwrap() of an offset that leaves the grid
follow_x(g, c, n) ==
    LET dx == IF c.x_pos THEN n - 1 ELSE 1 - n
        q  == grid22_offset(g, c.pos, <<dx, 0>>)
    IN  IF q.k = "none" THEN Panic ELSE Some(GridCorner(q.v, ~c.x_pos, c.y_pos))

follow_y(g, c, n) ==
    LET dy == IF c.y_pos THEN n - 1 ELSE 1 - n
        q  == grid22_offset(g, c.pos, <<0, dy>>)
    IN  IF q.k = "none" THEN Panic ELSE Some(GridCorner(q.v, c.x_pos, ~c.y_pos))

mirror_x(g, c) ==
    LET dx == IF c.x_pos THEN -1 ELSE 1
        q  == grid22_offset(g, c.pos, <<dx, 0>>)
    IN  IF q.k = "none" THEN None ELSE Some(GridCorner(q.v, ~c.x_pos, c.y_pos))

mirror_y(g, c) ==
    LET dy == IF c.y_pos THEN -1 ELSE 1
        q  == grid22_offset(g, c.pos, <<0, dy>>)
    IN  IF q.k = "none" THEN None ELSE Some(GridCorner(q.v, c.x_pos, ~c.y_pos))

\* the number of set neighbours of p; a neighbour off the grid counts as unset
set_neighbour(g, p, dir) ==
    LET c == grid22_step(g, p, dir)
    IN  IF c.k = "none" THEN FALSE ELSE is_set(g, c.v)

\* the order of Grid::points, which is not part of p22.rs: row by row or
\* column by column
P22Orders == {"rows", "columns"}

points_before(order, p, q) ==
    IF order = "rows" THEN p[2] < q[2] \/ (p[2] = q[2] /\ p[1] <= q[1])
    ELSE p[1] < q[1] \/ (p[1] = q[1] /\ p[2] <= q[2])

\* seed_corner: the first point with two set neighbours, None when expect()
\* panics; the point itself is not tested
seed_corner(g, order) ==
    LET found == {q \in (0..(g.width - 1)) \X (0..(g.height - 1)) :
                    Cardinality({d \in Dir : set_neighbour(g, q, d)}) = 2}
    IN  IF found = {} THEN None
        ELSE LET p == CHOOSE q \in found : \A r \in found : points_before(order, q, r)
             IN  Some(GridCorner(p, set_neighbour(g, p, "Right"), set_neighbour(g, p, "Down")))

Face(verts, coords) ==
    [verts |-> verts, coords |-> coords,
     x_bounds |-> <<SetMin({coords[i][1] : i \in 1..4}), SetMax({coords[i][1] : i \in 1..4})>>,
     y_bounds |-> <<SetMin({coords[i][2] : i \in 1..4}), SetMax({coords[i][2] : i \in 1..4})>>]

contains_pos(fc, pos) ==
    /\ pos[1] >= fc.x_bounds[1] /\ pos[1] <= fc.x_bounds[2]
    /\ pos[2] >= fc.y_bounds[1] /\ pos[2] <= fc.y_bounds[2]

\* the match of opposite_face: <<face, e0, e1, result>>
opposite_face_arms ==
    {<<0, 0, 1, 2>>, <<0, 0, 2, 1>>, <<0, 1, 3, 3>>, <<0, 2, 3, 4>>,
     <<1, 0, 2, 0>>, <<1, 0, 4, 2>>, <<1, 2, 6, 4>>, <<1, 4, 6, 5>>,
     <<2, 0, 1, 0>>, <<2, 1, 5, 3>>, <<2, 4, 5, 5>>, <<2, 0, 4, 1>>,
     <<3, 1, 3, 0>>, <<3, 1, 5, 2>>, <<3, 5, 7, 5>>, <<3, 3, 7, 4>>,
     <<4, 2, 3, 0>>, <<4, 3, 7, 3>>, <<4, 2, 6, 1>>, <<4, 6, 7, 5>>,
     <<5, 4, 5, 2>>, <<5, 5, 7, 3>>, <<5, 4, 6, 1>>, <<5, 6, 7, 4>>}

opposite_face(edge, face) ==
    LET e0 == Min(edge[1], edge[2])
        e1 == Max(edge[1], edge[2])
        arms == {a \in opposite_face_arms : a[1] = face /\ a[2] = e0 /\ a[3] = e1}
    IN  IF arms = {} THEN Panic ELSE Some((CHOOSE a \in arms : TRUE)[4])

\* the match of opposite_vert: <<face, v0, v1, result>>
opposite_vert_arms ==
    {<<0, 0, 1, 2>>, <<0, 1, 0, 3>>, <<0, 1, 3, 0>>, <<0, 3, 1, 2>>,
     <<0, 2, 3, 0>>, <<0, 3, 2, 1>>, <<0, 0, 2, 1>>, <<0, 2, 0, 3>>,
     <<1, 0, 2, 4>>, <<1, 2, 0, 6>>, <<1, 0, 4, 2>>, <<1, 4, 0, 6>>,
     <<1, 4, 6, 0>>, <<1, 6, 4, 2>>, <<1, 2, 6, 0>>, <<1, 6, 2, 4>>,
     <<2, 0, 1, 4>>, <<2, 1, 0, 5>>, <<2, 1, 5, 0>>, <<2, 5, 1, 4>>,
     <<2, 4, 5, 0>>, <<2, 5, 4, 1>>, <<2, 0, 4, 1>>, <<2, 4, 0, 5>>,
     <<3, 1, 3, 5>>, <<3, 3, 1, 7>>, <<3, 1, 5, 3>>, <<3, 5, 1, 7>>,
     <<3, 5, 7, 1>>, <<3, 7, 5, 3>>, <<3, 3, 7, 1>>, <<3, 7, 3, 5>>,
     <<4, 2, 3, 6>>, <<4, 3, 2, 7>>, <<4, 3, 7, 2>>, <<4, 7, 3, 6>>,
     <<4, 2, 6, 3>>, <<4, 6, 2, 7>>, <<4, 6, 7, 2>>, <<4, 7, 6, 3>>,
     <<5, 4, 5, 6>>, <<5, 5, 4, 7>>, <<5, 4, 6, 5>>, <<5, 6, 4, 7>>,
     <<5, 6, 7, 4>>, <<5, 7, 6, 5>>, <<5, 5, 7, 4>>, <<5, 7, 5, 6>>}

opposite_vert(face, v0, v1) ==
    LET arms == {a \in opposite_vert_arms : a[1] = face /\ a[2] = v0 /\ a[3] = v1}
    IN  IF arms = {} THEN Panic ELSE Some((CHOOSE a \in arms : TRUE)[4])

PendingEntry(face, edge, corners) == [face |-> face, edge |-> edge, corners |-> corners]

\* the while-let loop of CubeMapping::new; pending is a stack, its top last
RECURSIVE map_faces(_, _, _, _)
map_faces(g, n, faces, pending) ==
    IF pending = <<>> THEN Some(faces)
    ELSE
      LET entry == pending[Len(pending)]
          rest == SubSeq(pending, 1, Len(pending) - 1)
          is_horiz == entry.corners[1].x_pos # entry.corners[2].x_pos
          f0 == IF is_horiz THEN mirror_y(g, entry.corners[1]) ELSE mirror_x(g, entry.corners[1])
          f1 == IF is_horiz THEN mirror_y(g, entry.corners[2]) ELSE mirror_x(g, entry.corners[2])
          opp_id == opposite_face(entry.edge, entry.face)
          o_c2 == IF is_horiz THEN follow_y(g, f0.v, n) ELSE follow_x(g, f0.v, n)
          o_c3 == IF is_horiz THEN follow_y(g, f1.v, n) ELSE follow_x(g, f1.v, n)
          vc == opposite_vert(opp_id.v, entry.edge[1], entry.edge[2])
          vd == opposite_vert(opp_id.v, entry.edge[2], entry.edge[1])
          a == <<entry.edge[1], f0.v>>
          b == <<entry.edge[2], f1.v>>
          c == <<vc.v, o_c2.v>>
          d == <<vd.v, o_c3.v>>
          face == Face(<<a[1], b[1], c[1], d[1]>>,
                       <<a[2].pos, b[2].pos, c[2].pos, d[2].pos>>)
          \* what this round leaves: "continue", a panic, or the face mapped
          round ==
            IF f0.k = "none" \/ f1.k = "none" THEN <<"continue", faces, rest>>
            ELSE IF ~(is_set(g, f0.v.pos) /\ is_set(g, f1.v.pos)) THEN <<"continue", faces, rest>>
            ELSE IF opp_id.k = "panic" THEN <<"panic", faces, rest>>
            ELSE IF faces[opp_id.v + 1].k = "some" THEN <<"continue", faces, rest>>
            ELSE IF o_c2.k = "panic" \/ o_c3.k = "panic" \/ vc.k = "panic" \/ vd.k = "panic"
            THEN <<"panic", faces, rest>>
            ELSE <<"mapped", [faces EXCEPT ![opp_id.v + 1] = Some(face)],
                   rest \o <<PendingEntry(opp_id.v, <<a[1], c[1]>>, <<a[2], c[2]>>),
                             PendingEntry(opp_id.v, <<b[1], d[1]>>, <<b[2], d[2]>>),
                             PendingEntry(opp_id.v, <<c[1], d[1]>>, <<c[2], d[2]>>)>>>>
      IN  CHOOSE res \in {IF r[1] = "panic" THEN Panic ELSE map_faces(g, n, r[2], r[3]) :
                            r \in {round}} : TRUE

\* CubeMapping::new from the seed corner on: Some(faces), or Panic
CubeMapping_new(g, seed) ==
    LET n == side_len(g)
        a == seed
        b == follow_x(g, a, n)
        c == follow_y(g, a, n)
        d == follow_y(g, b.v, n)
    IN
      IF b.k = "panic" \/ c.k = "panic" THEN Panic
      ELSE IF d.k = "panic" THEN Panic
      ELSE
        LET face == Face(<<0, 1, 2, 3>>, <<a.pos, b.v.pos, c.v.pos, d.v.pos>>)
            faces == map_faces(g, n,
                        <<Some(face), None, None, None, None, None>>,
                        <<PendingEntry(0, <<0, 1>>, <<a, b.v>>),
                          PendingEntry(0, <<0, 2>>, <<a, c.v>>),
                          PendingEntry(0, <<2, 3>>, <<c.v, d.v>>),
                          PendingEntry(0, <<3, 1>>, <<d.v, b.v>>)>>)
        IN
          IF faces.k = "panic" THEN Panic
          ELSE IF \E i \in 1..6 : faces.v[i].k = "none" THEN Panic
          ELSE Some([i \in 1..6 |-> faces.v[i].v])

Mapped(pos, dir) == [k |-> "some", pos |-> pos, dir |-> dir]

MapPanic == [k |-> "panic", pos |-> <<0, 0>>, dir |-> "Right"]

\* the index (from 0) of the first element of s that is v
position(s, v) ==
    LET hits == {i \in 1..Len(s) : s[i] = v}
    IN  IF hits = {} THEN None ELSE Some(SetMin(hits) - 1)

Edge(v0, v1, c0) == [k |-> "some", v0 |-> v0, v1 |-> v1, c0 |-> c0]

NoEdge == [k |-> "panic", v0 |-> 0, v1 |-> 0, c0 |-> <<0, 0>>]

\* map, "Find which edge of the face": the first two corners of fc on the row
\* (is_horiz) or the column of pos; NoEdge is the unwrap() of next()
map_edge(fc, pos, is_horiz) ==
    LET f_idxs == IF is_horiz THEN {i \in 1..4 : fc.coords[i][2] = pos[2]}
                  ELSE {i \in 1..4 : fc.coords[i][1] = pos[1]}
    IN  IF Cardinality(f_idxs) < 2 THEN NoEdge
        ELSE Edge(fc.verts[SetMin(f_idxs)],
                  fc.verts[SetMin(f_idxs \ {SetMin(f_idxs)})],
                  fc.coords[SetMin(f_idxs)])

\* map, the direction towards j2 and the cell at distance t from pc0 to pc1
map_dest(c_j0, c_j1, c_j2, t) ==
    LET edge_horiz == c_j0[2] = c_j1[2]
        dx == c_j1[1] - c_j0[1]
        dy == c_j1[2] - c_j0[2]
        dest == <<t * signum(dx) + c_j0[1], t * signum(dy) + c_j0[2]>>
    IN  IF edge_horiz
        THEN (IF c_j0[2] < c_j2[2] THEN Mapped(dest, "Down")
              ELSE IF c_j0[2] > c_j2[2] THEN Mapped(dest, "Up")
              ELSE MapPanic)
        ELSE (IF c_j0[1] < c_j2[1] THEN Mapped(dest, "Right")
              ELSE IF c_j0[1] > c_j2[1] THEN Mapped(dest, "Left")
              ELSE MapPanic)

\* map, "Find corresponding edge on peer face" o
map_peer(o, v0, v1, t) ==
    LET j0 == position(o.verts, v0)
        j1 == position(o.verts, v1)
    IN  IF j0.k = "none" \/ j1.k = "none" THEN MapPanic
        ELSE CHOOSE res \in
               {map_dest(o.coords[j[1] + 1], o.coords[j[2] + 1], o.coords[j[3] + 1], t) :
                  j \in {<<j0.v, j1.v, SetMin({x \in 0..3 : x # j0.v /\ x # j1.v})>>}} : TRUE

\* map on the face with index face
map_on(faces, face, pos, dir) ==
    LET is_horiz == dir \in {"Up", "Down"}
    IN  CHOOSE res \in
          {IF e.k = "panic" THEN MapPanic
           ELSE LET opp_face == opposite_face(<<e.v0, e.v1>>, face)
                    t == IF is_horiz THEN Abs(pos[1] - e.c0[1]) ELSE Abs(pos[2] - e.c0[2])
                IN  IF opp_face.k = "panic" THEN MapPanic
                    ELSE map_peer(faces[opp_face.v + 1], e.v0, e.v1, t) :
             e \in {map_edge(faces[face + 1], pos, is_horiz)}} : TRUE

\* CubeMapping::map; MapPanic is a panic of expect(), unwrap(), opposite_face or
\* unreachable!()
map(faces, pos, dir) ==
    LET on == {i \in 1..6 : contains_pos(faces[i], pos)}
    IN  IF on = {} THEN MapPanic ELSE map_on(faces, SetMin(on) - 1, pos, dir)

(* The nets of the cube, found by rolling a cube over the squares of the   *)
(* net: a frame holds the directions of space that point down through the  *)
(* square, along +x of the grid and along +y of the grid.                  *)
P22Neg(v) == <<-v[1], -v[2], -v[3]>>

P22Frame(slot, d, e, s) == [slot |-> slot, d |-> d, e |-> e, s |-> s]

P22Rolled(fr, dir) ==
    CASE dir = "Right" -> P22Frame(<<fr.slot[1] + 1, fr.slot[2]>>, fr.e, P22Neg(fr.d), fr.s)
      [] dir = "Left" -> P22Frame(<<fr.slot[1] - 1, fr.slot[2]>>, P22Neg(fr.e), fr.d, fr.s)
      [] dir = "Down" -> P22Frame(<<fr.slot[1], fr.slot[2] + 1>>, fr.s, fr.e, P22Neg(fr.d))
      [] dir = "Up" -> P22Frame(<<fr.slot[1], fr.slot[2] - 1>>, P22Neg(fr.s), fr.e, fr.d)

\* the frames of the squares reached from frames[i..]
RECURSIVE P22Roll(_, _, _)
P22Roll(slots, frames, i) ==
    IF i > Len(frames) THEN frames
    ELSE
      LET seen == {frames[j].slot : j \in 1..Len(frames)}
          new(dir) == LET fr == P22Rolled(frames[i], dir)
                      IN  IF fr.slot \in slots /\ fr.slot \notin seen THEN <<fr>> ELSE <<>>
      IN  CHOOSE res \in {P22Roll(slots, fs, i + 1) :
                            fs \in {frames \o new("Right") \o new("Left")
                                           \o new("Down") \o new("Up")}} : TRUE

P22Frames(slots) ==
    P22Roll(slots,
            <<P22Frame(CHOOSE s \in slots : TRUE, <<0, 0, -1>>, <<1, 0, 0>>, <<0, 1, 0>>)>>, 1)

\* six squares that are connected, cover the six faces and touch both axes
P22IsNet(slots) ==
    /\ Cardinality(slots) = 6
    /\ \E s \in slots : s[1] = 0
    /\ \E s \in slots : s[2] = 0
    /\ LET frames == P22Frames(slots)
       IN  /\ Len(frames) = 6
           /\ Cardinality({frames[i].d : i \in 1..Len(frames)}) = 6

P22Nets ==
    {slots \in SUBSET ((0..3) \X (0..2)) : P22IsNet(slots)}
    \cup {slots \in SUBSET ((0..2) \X (0..3)) : P22IsNet(slots)}
    \cup {slots \in SUBSET ((0..4) \X (0..1)) : P22IsNet(slots)}
    \cup {slots \in SUBSET ((0..1) \X (0..4)) : P22IsNet(slots)}

\* the grid load_input builds for a net whose faces have n cells a side
P22Grid(slots, n) ==
    Grid22((SetMax({s[1] : s \in slots}) + 1) * n,
           (SetMax({s[2] : s \in slots}) + 1) * n,
           UNION {{<<s[1] * n + i, s[2] * n + j>> : i \in 0..(n - 1), j \in 0..(n - 1)} :
                     s \in slots})

\* the last call of the wrap closure: its arguments and the two results of map
NoCall == [called |-> FALSE, pos |-> <<0, 0>>, dir |-> "Right", out |-> MapPanic, unmap |-> MapPanic]

Call(pos, dir, out, unmap) ==
    [called |-> TRUE, pos |-> pos, dir |-> dir, out |-> out, unmap |-> unmap]

InitP22 ==
    /\ \E slots \in P22Nets, n \in 1..P22MaxSide, order \in P22Orders :
          p22 = [pc |-> "new", slots |-> slots, n |-> n, input |-> P22Grid(slots, n),
                 order |-> order, faces |-> <<>>,
                 actor |-> Actor_new(P22Grid(slots, n)), wrap |-> NoCall]
    /\ p25 = Idle /\ p21 = Idle /\ p21l = Idle /\ p17 = Idle /\ p24 = Idle
    /\ p15 = Idle /\ p16 = Idle /\ p16s = Idle /\ p11 = Idle /\ p19 = Idle
    /\ p14 = Idle /\ p20 = Idle

\* solve2 up to its loop: CubeMapping::new and Actor::new
P22New ==
    /\ p22.pc = "new"
    /\ LET seed == seed_corner(p22.input, p22.order)
           mapping == IF seed.k = "none" THEN Panic ELSE CubeMapping_new(p22.input, seed.v)
       IN  IF mapping.k = "panic"
           THEN p22' = [p22 EXCEPT !.pc = "panic"]
           ELSE p22' = [p22 EXCEPT !.pc = "ready", !.faces = mapping.v]
    /\ UNCHANGED <<p25, p21, p21l, p17, p24, p15, p16, p16s, p11, p19, p14, p20>>

\* Actor::execute of Move::Left or Move::Right
P22Turn ==
    /\ p22.pc = "ready"
    /\ \E insn \in {"Left", "Right"} :
          p22' = [p22 EXCEPT !.actor.dir = IF insn = "Left" THEN turn_left(p22.actor.dir)
                                            ELSE turn_right(p22.actor.dir),
                             !.wrap = NoCall]
    /\ UNCHANGED <<p25, p21, p21l, p17, p24, p15, p16, p16s, p11, p19, p14, p20>>

\* one round of the loop of Move::Move(n): Actor::forward, with the wrap
\* closure of solve2 when the cell in front is unset
P22Forward ==
    /\ p22.pc = "ready"
    /\ LET pos == p22.actor.pos
           dir == p22.actor.dir
       IN  IF ~forward_wraps(p22.input, pos, dir)
           THEN p22' = [p22 EXCEPT !.actor = Actor(grid22_step(p22.input, pos, dir).v, dir),
                                   !.wrap = NoCall]
           ELSE \E out \in {map(p22.faces, pos, dir)} :
                \E unmap \in {IF out.k = "panic" THEN MapPanic
                               ELSE map(p22.faces, out.pos, flip(out.dir))} :
                    IF out.k = "panic" \/ unmap.k = "panic"
                    THEN p22' = [p22 EXCEPT !.pc = "panic", !.wrap = Call(pos, dir, out, unmap)]
                    ELSE IF pos # unmap.pos \/ unmap.dir # flip(dir)
                    THEN p22' = [p22 EXCEPT !.pc = "panic", !.wrap = Call(pos, dir, out, unmap)]
                    ELSE IF ~grid22_in(p22.input, out.pos)
                    THEN p22' = [p22 EXCEPT !.pc = "panic", !.wrap = Call(pos, dir, out, unmap)]
                    ELSE p22' = [p22 EXCEPT !.actor = Actor(out.pos, out.dir),
                                            !.wrap = Call(pos, dir, out, unmap)]
    /\ UNCHANGED <<p25, p21, p21l, p17, p24, p15, p16, p16s, p11, p19, p14, p20>>

NextP22 == P22New \/ P22Turn \/ P22Forward

SpecP22 == InitP22 /\ [][NextP22]_vars

\* the frame of the square of the net that holds pos
P22FrameOf(slots, n, pos) ==
    LET frames == P22Frames(slots)
    IN  frames[CHOOSE i \in 1..Len(frames) : frames[i].slot = <<pos[1] \div n, pos[2] \div n>>]

P22DirVec(fr, dir) ==
    CASE dir = "Right" -> fr.e
      [] dir = "Left" -> P22Neg(fr.e)
      [] dir = "Down" -> fr.s
      [] dir = "Up" -> P22Neg(fr.s)

\* the centre of the cell pos on the rolled cube, in half cells from the
\* centre of the cube
P22Centre(slots, n, pos) ==
    LET fr == P22FrameOf(slots, n, pos)
        i == 2 * (pos[1] % n) - (n - 1)
        j == 2 * (pos[2] % n) - (n - 1)
    IN  [c \in 1..3 |-> n * fr.d[c] + i * fr.e[c] + j * fr.s[c]]

\* the face that meets the face of pos along the edge crossed in direction dir
P22Connecting(slots, n, pos, dir) ==
    LET frames == P22Frames(slots)
        v == P22DirVec(P22FrameOf(slots, n, pos), dir)
    IN  frames[CHOOSE i \in 1..Len(frames) : frames[i].d = v].slot

\* the cell and direction on the other side of that edge
P22Across(slots, n, g, pos, dir) ==
    LET fr == P22FrameOf(slots, n, pos)
        v == P22DirVec(fr, dir)
        here == P22Centre(slots, n, pos)
        there == [c \in 1..3 |-> here[c] + v[c] - fr.d[c]]
        q == CHOOSE p \in g.cells :
                /\ P22FrameOf(slots, n, p).d = v
                /\ P22Centre(slots, n, p) = there
    IN  Mapped(q, CHOOSE d \in Dir : P22DirVec(P22FrameOf(slots, n, q), d) = P22Neg(fr.d))

\* C14: for every net of the cube, CubeMapping::new and map never panic, and
\* map(pos, dir) for a set cell pos whose neighbour in direction dir is unset
\* is a set cell of the connecting face with a direction whose flip maps back
\* to (pos, flip(dir)), so that both assert_eq! of the wrap closure hold.
C14_MapRoundTrip ==
    /\ p22.pc # "panic"
    /\ (p22.pc = "ready" /\ p22.wrap.called) =>
          /\ p22.wrap.out.k = "some"
          /\ is_set(p22.input, p22.wrap.out.pos)
          /\ <<p22.wrap.out.pos[1] \div p22.n, p22.wrap.out.pos[2] \div p22.n>>
               = P22Connecting(p22.slots, p22.n, p22.wrap.pos, p22.wrap.dir)
          /\ p22.wrap.unmap = Mapped(p22.wrap.pos, flip(p22.wrap.dir))

\* C14 witness: a wrap call that changed the direction and mapped back
C14_Witness ==
    /\ p22.pc = "ready"
    /\ p22.wrap.called
    /\ p22.wrap.out.k = "some"
    /\ p22.wrap.out.dir # p22.wrap.dir
    /\ p22.actor = Actor(p22.wrap.out.pos, p22.wrap.out.dir)
    /\ p22.wrap.unmap = Mapped(p22.wrap.pos, flip(p22.wrap.dir))

\* with faces of two cells a side or more the mapping is built without a
\* panic and every wrap call returns the cell and the direction across the
\* edge of the cube
P22WideExact ==
    p22.pc # "idle" /\ p22.n >= 2 =>
        /\ p22.pc # "panic"
        /\ p22.wrap.called =>
              p22.wrap.out = P22Across(p22.slots, p22.n, p22.input, p22.wrap.pos, p22.wrap.dir)

\* with such faces the actor can walk to every set cell and leave set space
\* over every border of the net
P22WideWalksAll ==
    p22.pc = "ready" /\ p22.n >= 2 => is_set(p22.input, p22.actor.pos)

\* on a net whose faces are one cell a side no wrap call returns: the four
\* corners of a face are the same cell, and map panics
P22UnitNeverMaps == ~(p22.n = 1 /\ p22.pc = "ready" /\ p22.wrap.called)

\* a wrap call that panicked on a mapping built from such a net
P22UnitPanics == p22.pc = "panic" /\ p22.n = 1 /\ p22.wrap.called

====
